---- MODULE Spec2Model ----
(***************************************************************************)
(* Model of create_plotly_map.py: the build-time View Builder (Python) and *)
(* the run-time Filter Engine / View-Filter Coordinator (the JavaScript    *)
(* embedded in the generated page).                                        *)
(*                                                                         *)
(* Conventions of the model                                                *)
(*  - Sequences are 1-based: trace i of the model is trace i-1 of the      *)
(*    source, studio i of the model is STUDIOS[i-1].                       *)
(*  - Numbers are integers: scores are in hundredths, opacities in         *)
(*    hundredths, trajectory-line coordinates in eighths (GRADIENT_STEPS). *)
(*  - Python None / JS null inside numeric data is the integer None; a key *)
(*    that is absent from a studio record is Absent. Every genuine value   *)
(*    of the data is >= 0.                                                 *)
(*  - A text with "<br>" line breaks is the sequence of its lines; the     *)
(*    hover separator "<br>-----------<br>" is the line SEP between two    *)
(*    fragments.                                                           *)
(*  - Non-ASCII display strings of the source are transliterated.         *)
(***************************************************************************)
EXTENDS Integers, Sequences, FiniteSets, TLC

VARIABLES
  studios,                     \* data["studios"] / STUDIOS: the entity store
  traces,                      \* the trace list handed to go.Figure (construction time)
  trace_point_maps,            \* TRACE_POINT_MAP
  growth_line_studio_indices,  \* GROWTH_LINE_STUDIOS
  visibility_map,              \* VISIBILITY_MAP
  plotData,                    \* plotDiv.data: the live series
  _originalData,               \* the snapshot taken by initOriginalData
  filterFields,                \* the filter inputs of the page (DOM)
  filterCount,                 \* N of the "N/M" text of #filter-count
  listItems,                   \* the .studio-item elements: data-idx -> hidden?
  listCount,                   \* text of #list-count
  linesVisible,                \* var linesVisible
  loadTimer,                   \* the 500 ms timer of the load handler
  viewTimers,                  \* pending 100 ms timers of the view-change listener
  activeView,                  \* history: the view button clicked last
  heldPredicate,               \* history: the inputs the engine evaluated last
  layoutCall,                  \* a call of the layout helpers on its own: arguments and results
  hover                        \* var isProximityHover and the running plotly_hover handlers

buildVars == <<studios, traces, trace_point_maps, growth_line_studio_indices, visibility_map,
               layoutCall, hover>>
listVars  == <<filterCount, listItems, listCount>>
vars == <<studios, traces, trace_point_maps, growth_line_studio_indices, visibility_map,
          plotData, _originalData, filterFields, filterCount, listItems, listCount,
          linesVisible, loadTimer, viewTimers, activeView, heldPredicate, layoutCall, hover>>

----------------------------------------------------------------------------
(* Bounds of the model *)
MaxStudios == 2
MaxViewTimers == 1

(* Python None / JS null in numeric data, and a key missing from a record *)
None == -1
Absent == -2
NoneStr == "None"

----------------------------------------------------------------------------
(* Generic helpers *)

RECURSIVE SeqOfSet(_)
SeqOfSet(S) ==
  IF S = {} THEN <<>>
  ELSE LET m == CHOOSE a \in S : \A b \in S : a <= b
       IN <<m>> \o SeqOfSet(S \ {m})

RECURSIVE Flatten(_)
Flatten(ss) == IF ss = <<>> THEN <<>> ELSE Head(ss) \o Flatten(Tail(ss))

Range(f) == {f[i] : i \in DOMAIN f}

(* The same sequence, written out as an explicit tuple *)
Tup(f) == f \o <<>>

(* JavaScript values that may be a number, a string, an array or missing *)
JNull == [k |-> "null", n |-> 0, s |-> "", a |-> <<>>]
JUndef == [k |-> "undefined", n |-> 0, s |-> "", a |-> <<>>]
JNum(v) == [k |-> "number", n |-> v, s |-> "", a |-> <<>>]
JStr(v) == [k |-> "string", n |-> 0, s |-> v, a |-> <<>>]
JArr(v) == [k |-> "array", n |-> 0, s |-> "", a |-> Tup(v)]


----------------------------------------------------------------------------
(* Configuration tables *)

SEP == "-----------"

COLOR_DOMESTIC == "#3498DB"
COLOR_INTERNATIONAL == "#E74C3C"
COLOR_FALLBACK == "#95A5A6"

PaletteGet(pal, key) == IF key \in DOMAIN pal THEN pal[key] ELSE COLOR_FALLBACK

COLOR_PALETTES ==
  [ ai_adoption_level |-> [none |-> "#BDBDBD", experimental |-> "#FFC107",
                           production |-> "#4CAF50", core |-> "#FFD700"],
    ownership_type |-> [independent |-> "#27AE60", subsidiary |-> "#2980B9",
                        group_company |-> "#8E44AD"],
    business_model |-> [commission |-> "#E74C3C", mixed |-> "#F39C12",
                        original |-> "#27AE60", ip_holding |-> "#2980B9"],
    primary_platform_color |-> [Netflix |-> "#E50914", Crunchyroll |-> "#F47521",
                                Amazon |-> "#00A8E1", Other |-> "#95A5A6"] ]

LABEL_NAMES ==
  [ ai_adoption_level |-> [none |-> "nashi", experimental |-> "jikkenteki",
                           production |-> "honban-dounyuu", core |-> "koa-gijutsu"],
    ownership_type |-> [independent |-> "dokuritsu-kei", subsidiary |-> "kogaisha",
                        group_company |-> "guruupu-gaisha"],
    business_model |-> [commission |-> "jutaku-seisaku", mixed |-> "kongou",
                        original |-> "orijinaru", ip_holding |-> "IP-hoyuu"] ]

(* dict.get(key, key) on a label table *)
LabelGet(tbl, key) == IF key \in DOMAIN tbl THEN tbl[key] ELSE key

MARKER_OPACITY_FULL == 100
MARKER_OPACITY_GROWTH_START == 40
MARKER_OPACITY_NONPROF == 50
GRADIENT_STEPS == 8

VIEW_KEYS == <<"founded", "current", "growth", "business_model", "ai_adoption",
               "revenue", "ownership", "platform", "profitability">>
AI_LEVELS == <<"none", "experimental", "production", "core">>

----------------------------------------------------------------------------
(* The entity store.  The data file is an input of the program: the model  *)
(* draws it from every order-preserving selection of at most MaxStudios    *)
(* records of StudioPool.  The pool studios carry no parent_company,       *)
(* ai_adoption_detail, revenue_year or licensing_ratio key.                *)

StudioPool == <<
  [name |-> "Ab", region |-> "domestic", founded |-> 1990,
   original_score |-> 50, original_score_founded |-> Absent,
   size_founded_num |-> 100, size_current_num |-> 200,
   ip_ownership_score |-> 30, business_model |-> "commission",
   ai_adoption_level |-> "none", ownership_type |-> "independent",
   revenue_billion_yen |-> None, operating_margin |-> Absent,
   primary_platform |-> <<>>, years_to_profitability |-> None,
   notable_works |-> <<"Xy">>],
  [name |-> "Cd", region |-> "domestic", founded |-> 2005,
   original_score |-> 50, original_score_founded |-> Absent,
   size_founded_num |-> 100, size_current_num |-> 200,
   ip_ownership_score |-> 30, business_model |-> NoneStr,
   ai_adoption_level |-> "none", ownership_type |-> "independent",
   revenue_billion_yen |-> 5, operating_margin |-> None,
   primary_platform |-> <<>>, years_to_profitability |-> None,
   notable_works |-> <<>>],
  [name |-> "Ef", region |-> "international", founded |-> 2010,
   original_score |-> 20, original_score_founded |-> Absent,
   size_founded_num |-> None, size_current_num |-> None,
   ip_ownership_score |-> None, business_model |-> NoneStr,
   ai_adoption_level |-> NoneStr, ownership_type |-> NoneStr,
   revenue_billion_yen |-> 5, operating_margin |-> Absent,
   primary_platform |-> <<"Netflix">>, years_to_profitability |-> 3,
   notable_works |-> <<"Zb">>],
  [name |-> "Gh", region |-> "international", founded |-> 2010,
   original_score |-> 20, original_score_founded |-> 40,
   size_founded_num |-> 10, size_current_num |-> 300,
   ip_ownership_score |-> 60, business_model |-> "licensing",
   ai_adoption_level |-> "core", ownership_type |-> "studio_llc",
   revenue_billion_yen |-> 5, operating_margin |-> None,
   primary_platform |-> <<"Netflix">>, years_to_profitability |-> None,
   notable_works |-> <<>>] >>

(* The characters of the strings the text search reads *)
Chars(str) ==
  CASE str = "Ab" -> <<"A", "b">> [] str = "Cd" -> <<"C", "d">>
    [] str = "Ef" -> <<"E", "f">> [] str = "Gh" -> <<"G", "h">>
    [] str = "Xy" -> <<"X", "y">> [] str = "Zb" -> <<"Z", "b">>
    [] OTHER -> <<>>

Datasets ==
  { [i \in 1..Len(sel) |-> StudioPool[sel[i]]] :
      sel \in { SeqOfSet(S) : S \in { T \in SUBSET (1..Len(StudioPool)) :
                                        Cardinality(T) \in 1..MaxStudios } } }

----------------------------------------------------------------------------
(* Entities as the Python code handles them.  An entry is a studio dict:   *)
(* base is the studio whose attributes it carries (studio_global_idx of    *)
(* the dict it was copied from), name its "name" value, parts its          *)
(* "_hover_parts" list (<<>> when the key is not set).                     *)

Raw(i) == [base |-> i, name |-> <<studios[i].name>>, parts |-> <<>>]
Attr(e, key) == studios[e.base][key]

(* s.get(key, default): the default only when the key is absent *)
Get(e, key, default) == IF Attr(e, key) = Absent THEN default ELSE Attr(e, key)
(* s.get(key): None when the key is absent *)
GetNone(e, key) == IF Attr(e, key) = Absent THEN None ELSE Attr(e, key)
(* Python "v or d" on a number or None *)
OrElse(v, d) == IF v = None \/ v = 0 THEN d ELSE v
(* Python truthiness of a number or None *)
Truthy(v) == v # None /\ v # Absent /\ v # 0

AllStudios == Tup([i \in 1..Len(studios) |-> Raw(i)])
domestic == SelectSeq(AllStudios, LAMBDA e : Attr(e, "region") = "domestic")
international == SelectSeq(AllStudios, LAMBDA e : Attr(e, "region") = "international")
growth_studios ==
  SelectSeq(AllStudios, LAMBDA e :
      /\ Truthy(Attr(e, "size_founded_num"))
      /\ Truthy(Attr(e, "size_current_num"))
      /\ Attr(e, "size_founded_num") # Attr(e, "size_current_num"))

(* resolve_label_positions.  Distances are kept in integers: dx in         *)
(* hundredths (a score is in hundredths already, any other x attribute is  *)
(* in units), the sort key dx + dy * 0.5 as 200 times its value.           *)
DEFAULT_POSITION == "middle right"
ALTERNATIVES ==
  << "top right", "bottom right", "top center",
     "top left", "middle left", "bottom center", "bottom left" >>

LabelPoint(s, size_key, x_key) ==
  LET x == Get(s, x_key, Attr(s, "original_score"))
  IN [x |-> IF x = None THEN 0 ELSE x, y |-> OrElse(Get(s, size_key, 10), 10)]

Abs(n) == IF n < 0 THEN -n ELSE n

(* dx and dy of a pair of points *)
PairGap(positions, i, j, x_key) ==
  [dx |-> Abs(positions[i].x - positions[j].x)
            * (IF x_key \in {"original_score", "original_score_founded"} THEN 1 ELSE 100),
   dy |-> Abs(positions[i].y - positions[j].y)]

(* A faulty tuple order that compares the distance only, so that pairs of  *)
(* equal distance may come in either order                                 *)
PairTupleLeqByDistance(p, q, positions, x_key) ==
  LET key(r) == LET g == PairGap(positions, r[1], r[2], x_key) IN 2 * g.dx + 100 * g.dy
  IN key(p) <= key(q)

(* The order of the tuples (dx + dy * 0.5, i, j, dx, dy) that pairs.sort() *)
(* compares: by distance, then by i, then by j                             *)
PairTupleLeq(p, q, positions, x_key) ==
  LET key(r) == LET g == PairGap(positions, r[1], r[2], x_key) IN 2 * g.dx + 100 * g.dy
  IN \/ key(p) < key(q)
     \/ key(p) = key(q) /\ p[1] < q[1]
     \/ key(p) = key(q) /\ p[1] = q[1] /\ p[2] <= q[2]

(* pairs.sort(): tuples (dx + dy * 0.5, i, j, dx, dy) in ascending order *)
RECURSIVE SortPairs(_, _, _)
SortPairs(S, positions, x_key) ==
  LET before(p, q) == PairTupleLeq(p, q, positions, x_key)
      m == CHOOSE p \in S : \A q \in S : before(p, q)
  IN IF S = {} THEN <<>> ELSE <<m>> \o SortPairs(S \ {m}, positions, x_key)

(* A faulty placement loop that moves the label of j for every pair, close *)
(* or not                                                                  *)
RECURSIVE PlaceLabelsAnyPair(_, _, _, _, _)
PlaceLabelsAnyPair(pairs, positions, x_key, text_positions, used) ==
  IF pairs = <<>> THEN text_positions
  ELSE LET i == Head(pairs)[1]
           j == Head(pairs)[2]
           free == { a \in 1..Len(ALTERNATIVES) :
                       ALTERNATIVES[a] # text_positions[i] /\ <<j, ALTERNATIVES[a]>> \notin used }
           alt == ALTERNATIVES[CHOOSE a \in free : \A b \in free : a <= b]
       IN IF free # {}
          THEN PlaceLabelsAnyPair(Tail(pairs), positions, x_key,
                                  [text_positions EXCEPT ![j] = alt], used \cup {<<j, alt>>})
          ELSE PlaceLabelsAnyPair(Tail(pairs), positions, x_key, text_positions, used)

(* The loop over the sorted pairs: the label of j moves to the first       *)
(* alternative that differs from the label of i and that j did not use     *)
RECURSIVE PlaceLabels(_, _, _, _, _)
PlaceLabels(pairs, positions, x_key, text_positions, used) ==
  IF pairs = <<>> THEN text_positions
  ELSE LET i == Head(pairs)[1]
           j == Head(pairs)[2]
           g == PairGap(positions, i, j, x_key)
           free == { a \in 1..Len(ALTERNATIVES) :
                       ALTERNATIVES[a] # text_positions[i] /\ <<j, ALTERNATIVES[a]>> \notin used }
           alt == ALTERNATIVES[CHOOSE a \in free : \A b \in free : a <= b]
       IN IF g.dx < 10 /\ g.dy < 150 /\ free # {}
          THEN PlaceLabels(Tail(pairs), positions, x_key,
                           [text_positions EXCEPT ![j] = alt], used \cup {<<j, alt>>})
          ELSE PlaceLabels(Tail(pairs), positions, x_key, text_positions, used)

resolve_label_positions(studio_list, size_key, x_key) ==
  LET n == Len(studio_list)
      positions == Tup([i \in 1..n |-> LabelPoint(studio_list[i], size_key, x_key)])
      pairs == SortPairs({ p \in (1..n) \X (1..n) : p[1] < p[2] }, positions, x_key)
  IN PlaceLabels(pairs, positions, x_key, Tup([i \in 1..n |-> DEFAULT_POSITION]), {})

(* Every list pairs.sort() may leave: the arrangements of the pairs that   *)
(* ascend in the tuple order                                               *)
RECURSIVE SortedPairLists(_, _, _)
SortedPairLists(S, positions, x_key) ==
  IF S = {} THEN { <<>> }
  ELSE UNION { { <<m>> \o rest : rest \in SortedPairLists(S \ {m}, positions, x_key) } :
                 m \in { p \in S : \A q \in S : PairTupleLeq(p, q, positions, x_key) } }

(* The results a run of resolve_label_positions may return *)
resolve_label_positions_runs(studio_list, size_key, x_key) ==
  LET n == Len(studio_list)
      positions == Tup([i \in 1..n |-> LabelPoint(studio_list[i], size_key, x_key)])
  IN { PlaceLabels(pairs, positions, x_key, Tup([i \in 1..n |-> DEFAULT_POSITION]), {}) :
         pairs \in SortedPairLists({ p \in (1..n) \X (1..n) : p[1] < p[2] }, positions, x_key) }

(* The (x, y) key of merge_overlapping *)
MergeKey(e, x_key, size_key) ==
  << Get(e, x_key, Attr(e, "original_score")), OrElse(Get(e, size_key, 10), 10) >>

(* A faulty merge_overlapping that leaves out the studios without a size   *)
(* instead of plotting them at the sentinel                                *)
merge_overlapping_sized_only(studio_list, x_key, size_key) ==
  LET sized == SelectSeq(studio_list, LAMBDA e : Truthy(Attr(e, size_key)))
      key(e) == << Get(e, x_key, Attr(e, "original_score")), Attr(e, size_key) >>
      heads == { i \in 1..Len(sized) : \A j \in 1..(i-1) : key(sized[j]) # key(sized[i]) }
      order == SeqOfSet(heads)
      grp(i) == SelectSeq(sized, LAMBDA e : key(e) = key(sized[i]))
      mk(g) == IF Len(g) = 1 THEN g[1]
               ELSE [base |-> g[1].base,
                     name |-> Flatten([j \in 1..Len(g) |-> g[j].name]),
                     parts |-> g]
  IN Tup([n \in 1..Len(order) |-> mk(grp(order[n]))])

(* A faulty merge_overlapping that lists the groups in the order of their  *)
(* last member instead of their first                                      *)
merge_overlapping_last_seen(studio_list, x_key, size_key) ==
  LET key(e) == MergeKey(e, x_key, size_key)
      lasts == { i \in 1..Len(studio_list) :
                   \A j \in (i+1)..Len(studio_list) : key(studio_list[j]) # key(studio_list[i]) }
      order == SeqOfSet(lasts)
      grp(i) == SelectSeq(studio_list, LAMBDA e : key(e) = key(studio_list[i]))
      mk(g) == IF Len(g) = 1 THEN g[1]
               ELSE [base |-> g[1].base,
                     name |-> Flatten([j \in 1..Len(g) |-> g[j].name]),
                     parts |-> g]
  IN Tup([n \in 1..Len(order) |-> mk(grp(order[n]))])

(* A faulty merge_overlapping that builds a combined entry for every       *)
(* group, also for a group of one                                          *)
merge_overlapping_always_combined(studio_list, x_key, size_key) ==
  LET key(e) == MergeKey(e, x_key, size_key)
      heads == { i \in 1..Len(studio_list) :
                   \A j \in 1..(i-1) : key(studio_list[j]) # key(studio_list[i]) }
      order == SeqOfSet(heads)
      grp(i) == SelectSeq(studio_list, LAMBDA e : key(e) = key(studio_list[i]))
      mk(g) == [base |-> g[1].base,
                name |-> Flatten([j \in 1..Len(g) |-> g[j].name]),
                parts |-> g]
  IN Tup([n \in 1..Len(order) |-> mk(grp(order[n]))])

merge_overlapping(studio_list, x_key, size_key) ==
  LET key(e) == MergeKey(e, x_key, size_key)
      heads == { i \in 1..Len(studio_list) :
                   \A j \in 1..(i-1) : key(studio_list[j]) # key(studio_list[i]) }
      order == SeqOfSet(heads)
      grp(i) == SelectSeq(studio_list, LAMBDA e : key(e) = key(studio_list[i]))
      mk(g) == IF Len(g) = 1 THEN g[1]
               ELSE [base |-> g[1].base,
                     name |-> Flatten([j \in 1..Len(g) |-> g[j].name]),
                     parts |-> g]
  IN Tup([n \in 1..Len(order) |-> mk(grp(order[n]))])

(* studio_global_idx[id(s)] of an original studio dict *)
studio_global_idx(e) == e.base

build_point_map(studio_list, x_key, size_key) ==
  LET merged == merge_overlapping(studio_list, x_key, size_key)
  IN [n \in 1..Len(merged) |->
        IF merged[n].parts # <<>>
        THEN [j \in 1..Len(merged[n].parts) |-> studio_global_idx(merged[n].parts[j])]
        ELSE <<studio_global_idx(merged[n])>>]

----------------------------------------------------------------------------
(* Hover text *)

Fmt(v) == IF v = Absent THEN "?" ELSE IF v = None THEN "None" ELSE ToString(v)

RECURSIVE JoinComma(_)
JoinComma(ws) ==
  IF ws = <<>> THEN ""
  ELSE IF Len(ws) = 1 THEN ws[1] ELSE ws[1] \o ", " \o JoinComma(Tail(ws))

hover_text(s, size_key) ==
  LET ot == Attr(s, "ownership_type")
      ai == Attr(s, "ai_adoption_level")
      rev == GetNone(s, "revenue_billion_yen")
      margin == GetNone(s, "operating_margin")
      pf == Attr(s, "primary_platform")
      ytp == GetNone(s, "years_to_profitability")
      works == SubSeq(Attr(s, "notable_works"), 1,
                      IF Len(Attr(s, "notable_works")) < 3
                      THEN Len(Attr(s, "notable_works")) ELSE 3)
  IN   << "<b>" \o Attr(s, "name") \o "</b>",
          "bunrui: " \o (IF Attr(s, "region") = "domestic" THEN "kokunai" ELSE "kaigai"),
          "setsuritsu: " \o Fmt(Attr(s, "founded")),
          "ninzuu: " \o Fmt(Attr(s, size_key)),
          "score: " \o Fmt(Attr(s, "original_score")) >>
    \o (IF ot # NoneStr
        THEN << "shoyuu: " \o LabelGet(LABEL_NAMES.ownership_type, ot) >> ELSE <<>>)
    \o (IF ai # NoneStr /\ ai # "none"
        THEN << "AI: " \o LabelGet(LABEL_NAMES.ai_adoption_level, ai) >> ELSE <<>>)
    \o (IF rev # None THEN << "uriage: " \o ToString(rev) >> ELSE <<>>)
    \o (IF margin # None THEN << "rieki: " \o ToString(margin) >> ELSE <<>>)
    \o (IF pf # <<>> THEN << "PF: " \o JoinComma(pf) >> ELSE <<>>)
    \o (IF ytp # None THEN << "kuroji: " \o ToString(ytp) >> ELSE <<>>)
    \o << "daihyousaku: " \o JoinComma(works) >>

(* sep.join(fragments) with sep = "<br>" SEP "<br>" *)
RECURSIVE JoinSep(_)
JoinSep(frags) ==
  IF frags = <<>> THEN <<>>
  ELSE IF Len(frags) = 1 THEN frags[1]
  ELSE frags[1] \o <<SEP>> \o JoinSep(Tail(frags))

(* The hover text of one merged point *)
MergedHover(s, size_key) ==
  IF s.parts # <<>>
  THEN JoinSep([j \in 1..Len(s.parts) |-> hover_text(s.parts[j], size_key)])
  ELSE hover_text(s, size_key)

(* The studios drawn as one rendered point: the _hover_parts of the merged *)
(* entry, or the entry itself                                              *)
PointMembers(s) ==
  IF s.parts # <<>> THEN [j \in 1..Len(s.parts) |-> s.parts[j].base] ELSE <<s.base>>

----------------------------------------------------------------------------
(* Trace constructors *)

MarkerTrace(merged, name, xs, ys, texts, hover_key, opacity, textcolor) ==
  [ mode |-> "markers+text", name |-> name, x |-> xs, y |-> ys, text |-> JArr(texts),
    hovertext |-> JArr([n \in 1..Len(merged) |-> MergedHover(merged[n], hover_key)]),
    marker_opacity |-> JNum(opacity), textfont_color |-> textcolor,
    members |-> [n \in 1..Len(merged) |-> PointMembers(merged[n])] ]

make_scatter(studio_list, color, name, size_key, opacity, x_key) ==
  LET merged == merge_overlapping(studio_list, x_key, size_key)
  IN MarkerTrace(merged, name,
       [n \in 1..Len(merged) |-> Get(merged[n], x_key, Attr(merged[n], "original_score"))],
       [n \in 1..Len(merged) |-> OrElse(Get(merged[n], size_key, 10), 10)],
       [n \in 1..Len(merged) |-> merged[n].name],
       size_key, opacity, JStr(color))

(* Category value of make_categorical_scatter: s.get(field, "unknown"), None -> "unknown" *)
CatValue(e, color_field) ==
  IF Attr(e, color_field) = NoneStr THEN "unknown" ELSE Attr(e, color_field)

(* The keys of a dict filled in list order (groups.setdefault(val, [])):   *)
(* the distinct values of a list, in first-encounter order                 *)
FirstSeen(vals) ==
  LET heads == { i \in 1..Len(vals) : \A j \in 1..(i-1) : vals[j] # vals[i] }
      order == SeqOfSet(heads)
  IN [n \in 1..Len(order) |-> vals[order[n]]]

make_categorical_scatter(studio_list, color_field, palette, label_map, x_key, y_key) ==
  LET cats == FirstSeen([n \in 1..Len(studio_list) |-> CatValue(studio_list[n], color_field)])
      one(cat_val) ==
        LET cat_studios == SelectSeq(studio_list, LAMBDA e : CatValue(e, color_field) = cat_val)
            merged == merge_overlapping(cat_studios, x_key, y_key)
        IN MarkerTrace(merged, LabelGet(label_map, cat_val),
             [n \in 1..Len(merged) |-> Get(merged[n], x_key, Attr(merged[n], "original_score"))],
             [n \in 1..Len(merged) |-> OrElse(Get(merged[n], y_key, 10), 10)],
             [n \in 1..Len(merged) |-> merged[n].name],
             y_key, MARKER_OPACITY_FULL, JStr(PaletteGet(palette, cat_val)))
  IN [c \in 1..Len(cats) |-> one(cats[c])]

LineTrace(xs, ys, name) ==
  [ mode |-> "lines", name |-> name, x |-> xs, y |-> ys, text |-> JUndef,
    hovertext |-> JUndef, marker_opacity |-> JUndef, textfont_color |-> JUndef,
    members |-> <<>> ]

(* Coordinates are kept in eighths: x0 = x_start + (x_end - x_start) * step / 8 *)
make_growth_line_traces(studio_list, region_label) ==
  LET x_start(s) == Get(s, "original_score_founded", Attr(s, "original_score"))
      x_end(s) == Attr(s, "original_score")
      y_start(s) == OrElse(Attr(s, "size_founded_num"), 10)
      y_end(s) == Attr(s, "size_current_num")
      at(a, b, k) == GRADIENT_STEPS * a + (b - a) * k
      seg(step, f0(_), f1(_)) ==
        Flatten([n \in 1..Len(studio_list) |->
                   << at(f0(studio_list[n]), f1(studio_list[n]), step),
                      at(f0(studio_list[n]), f1(studio_list[n]), step + 1), None >>])
  IN [k \in 1..GRADIENT_STEPS |->
        LineTrace(seg(k - 1, x_start, x_end), seg(k - 1, y_start, y_end),
                  "kiseki-sen " \o region_label)]

get_primary_platform(s) ==
  IF Attr(s, "primary_platform") = <<>> THEN "Other" ELSE Attr(s, "primary_platform")[1]

----------------------------------------------------------------------------
(* The View Builder: the module-level code that appends the traces of the  *)
(* nine views.  A slot is one appended trace with what the builder records *)
(* for it: pm, the trace_point_maps entry (hasPm: whether one is written), *)
(* and ls, the growth_line_studio_indices entry.                           *)

Slot(tr, hasPm, pm, hasLs, ls) ==
  [tr |-> tr, hasPm |-> hasPm, pm |-> pm, hasLs |-> hasLs, ls |-> ls]
MarkerSlot(tr, pm) == Slot(tr, TRUE, pm, FALSE, <<>>)

(* View 1: founded *)
FoundedSlots ==
  << MarkerSlot(make_scatter(domestic, COLOR_DOMESTIC, "kokunai", "size_founded_num",
                             MARKER_OPACITY_FULL, "original_score"),
                build_point_map(domestic, "original_score", "size_founded_num")),
     MarkerSlot(make_scatter(international, COLOR_INTERNATIONAL, "kaigai", "size_founded_num",
                             MARKER_OPACITY_FULL, "original_score"),
                build_point_map(international, "original_score", "size_founded_num")) >>

(* View 2: current *)
CurrentSlots ==
  << MarkerSlot(make_scatter(domestic, COLOR_DOMESTIC, "kokunai", "size_current_num",
                             MARKER_OPACITY_FULL, "original_score"),
                build_point_map(domestic, "original_score", "size_current_num")),
     MarkerSlot(make_scatter(international, COLOR_INTERNATIONAL, "kaigai", "size_current_num",
                             MARKER_OPACITY_FULL, "original_score"),
                build_point_map(international, "original_score", "size_current_num")) >>

(* View 3: growth *)
growth_dom == SelectSeq(growth_studios, LAMBDA e : Attr(e, "region") = "domestic")
growth_intl == SelectSeq(growth_studios, LAMBDA e : Attr(e, "region") = "international")

(* The start markers: make_scatter, then textfont and text are replaced *)
GrowthStartTrace(list, color, name, textcolor) ==
  LET tr == make_scatter(list, color, name, "size_founded_num",
                         MARKER_OPACITY_GROWTH_START, "original_score_founded")
      merged == merge_overlapping(list, "original_score_founded", "size_founded_num")
      label(s) == IF s.parts # <<>>
                  THEN [j \in 1..Len(s.parts) |-> "(" \o Fmt(Attr(s.parts[j], "founded")) \o ")"]
                  ELSE << "(" \o Fmt(Attr(s, "founded")) \o ")" >>
  IN [tr EXCEPT !.textfont_color = JStr(textcolor),
                !.text = JArr([n \in 1..Len(merged) |-> label(merged[n])])]

GrowthMarkerSlots ==
  << MarkerSlot(GrowthStartTrace(growth_dom, COLOR_DOMESTIC, "kokunai (setsuritsu-ji)",
                                 "rgba(52,152,219,0.6)"),
                build_point_map(growth_dom, "original_score_founded", "size_founded_num")),
     MarkerSlot(GrowthStartTrace(growth_intl, COLOR_INTERNATIONAL, "kaigai (setsuritsu-ji)",
                                 "rgba(231,76,60,0.6)"),
                build_point_map(growth_intl, "original_score_founded", "size_founded_num")),
     MarkerSlot(make_scatter(growth_dom, COLOR_DOMESTIC, "kokunai (genzai)", "size_current_num",
                             MARKER_OPACITY_FULL, "original_score"),
                build_point_map(growth_dom, "original_score", "size_current_num")),
     MarkerSlot(make_scatter(growth_intl, COLOR_INTERNATIONAL, "kaigai (genzai)", "size_current_num",
                             MARKER_OPACITY_FULL, "original_score"),
                build_point_map(growth_intl, "original_score", "size_current_num")) >>

GrowthLineSlots ==
  LET glob(list) == [n \in 1..Len(list) |-> studio_global_idx(list[n])]
      dom == make_growth_line_traces(growth_dom, "kokunai")
      intl == make_growth_line_traces(growth_intl, "kaigai")
  IN [k \in 1..GRADIENT_STEPS |-> Slot(dom[k], FALSE, <<>>, TRUE, glob(growth_dom))]
     \o [k \in 1..GRADIENT_STEPS |-> Slot(intl[k], FALSE, <<>>, TRUE, glob(growth_intl))]

(* The key of a label table whose label is the trace name, or NoneStr *)
CatKeyOfLabel(tbl, cat_label) ==
  IF \E key \in DOMAIN tbl : tbl[key] = cat_label
  THEN CHOOSE key \in DOMAIN tbl : tbl[key] = cat_label
  ELSE NoneStr

(* View 4: business_model.  The first loop writes a map of the studios     *)
(* whose business_model equals the trace NAME; the second loop rewrites it *)
(* when the name is a label of LABEL_NAMES.                                *)
bm_studios == SelectSeq(AllStudios, LAMBDA e : GetNone(e, "ip_ownership_score") # None)

BusinessModelSlots ==
  LET trs == make_categorical_scatter(bm_studios, "business_model",
                                      COLOR_PALETTES.business_model, LABEL_NAMES.business_model,
                                      "original_score", "ip_ownership_score")
      first(tr) == build_point_map(
                     SelectSeq(bm_studios, LAMBDA e : Attr(e, "business_model") = tr.name),
                     "original_score", "ip_ownership_score")
      cat_key(tr) == CatKeyOfLabel(LABEL_NAMES.business_model, tr.name)
      second(tr) == build_point_map(
                      SelectSeq(bm_studios, LAMBDA e : Attr(e, "business_model") = cat_key(tr)),
                      "original_score", "ip_ownership_score")
  IN [c \in 1..Len(trs) |->
        MarkerSlot(trs[c], IF cat_key(trs[c]) # NoneStr THEN second(trs[c]) ELSE first(trs[c]))]

(* View 5: ai_adoption *)
AiAdoptionSlots ==
  LET one(region_studios, region_label, ai_level) ==
        LET level_studios == SelectSeq(region_studios,
                                       LAMBDA e : Attr(e, "ai_adoption_level") = ai_level)
            merged == merge_overlapping(level_studios, "original_score", "size_current_num")
        IN IF level_studios = <<>> THEN <<>>
           ELSE << MarkerSlot(
                     MarkerTrace(merged,
                       region_label \o " - " \o LABEL_NAMES.ai_adoption_level[ai_level],
                       [n \in 1..Len(merged) |-> Get(merged[n], "original_score", 0)],
                       [n \in 1..Len(merged) |-> OrElse(Get(merged[n], "size_current_num", 10), 10)],
                       [n \in 1..Len(merged) |-> merged[n].name],
                       "size_current_num", MARKER_OPACITY_FULL,
                       JStr(COLOR_PALETTES.ai_adoption_level[ai_level])),
                     build_point_map(level_studios, "original_score", "size_current_num")) >>
      region(region_studios, region_label) ==
        Flatten([l \in 1..Len(AI_LEVELS) |-> one(region_studios, region_label, AI_LEVELS[l])])
  IN region(domestic, "kokunai") \o region(international, "kaigai")

(* View 6: revenue.  textfont carries a size only, no color. *)
revenue_studios == SelectSeq(AllStudios, LAMBDA e : GetNone(e, "revenue_billion_yen") # None)

RevenueSlots ==
  LET merged_rev == merge_overlapping(revenue_studios, "operating_margin", "revenue_billion_yen")
  IN IF revenue_studios = <<>> THEN <<>>
     ELSE << MarkerSlot(
               MarkerTrace(merged_rev, "shuueki-data koukai kigyou",
                 [n \in 1..Len(merged_rev) |-> OrElse(Get(merged_rev[n], "operating_margin", 0), 0)],
                 [n \in 1..Len(merged_rev) |-> OrElse(Get(merged_rev[n], "revenue_billion_yen", 1), 1)],
                 [n \in 1..Len(merged_rev) |-> merged_rev[n].name],
                 "revenue_billion_yen", MARKER_OPACITY_FULL, JUndef),
               build_point_map(revenue_studios, "operating_margin", "revenue_billion_yen")) >>

(* View 7: ownership.  A map is written only when the trace name is a      *)
(* label of LABEL_NAMES.                                                   *)
OwnershipSlots ==
  LET trs == make_categorical_scatter(AllStudios, "ownership_type",
                                      COLOR_PALETTES.ownership_type, LABEL_NAMES.ownership_type,
                                      "original_score", "size_current_num")
      cat_key(tr) == CatKeyOfLabel(LABEL_NAMES.ownership_type, tr.name)
      pm(tr) == build_point_map(
                  SelectSeq(AllStudios, LAMBDA e : Attr(e, "ownership_type") = cat_key(tr)),
                  "original_score", "size_current_num")
  IN [c \in 1..Len(trs) |->
        IF cat_key(trs[c]) # NoneStr THEN MarkerSlot(trs[c], pm(trs[c]))
        ELSE Slot(trs[c], FALSE, <<>>, FALSE, <<>>)]

(* View 8: platform *)
PlatformSlots ==
  LET pfs == FirstSeen([n \in 1..Len(AllStudios) |-> get_primary_platform(AllStudios[n])])
      one(pf_name) ==
        LET pf_studios == SelectSeq(AllStudios, LAMBDA e : get_primary_platform(e) = pf_name)
            merged == merge_overlapping(pf_studios, "original_score", "size_current_num")
        IN MarkerSlot(
             MarkerTrace(merged, pf_name,
               [n \in 1..Len(merged) |-> Get(merged[n], "original_score", 0)],
               [n \in 1..Len(merged) |-> OrElse(Get(merged[n], "size_current_num", 10), 10)],
               [n \in 1..Len(merged) |-> merged[n].name],
               "size_current_num", MARKER_OPACITY_FULL,
               JStr(PaletteGet(COLOR_PALETTES.primary_platform_color, pf_name))),
             build_point_map(pf_studios, "original_score", "size_current_num"))
  IN [c \in 1..Len(pfs) |-> one(pfs[c])]

(* View 9: profitability *)
prof_studios == SelectSeq(AllStudios, LAMBDA e : GetNone(e, "years_to_profitability") # None)
nonprof_studios == SelectSeq(AllStudios, LAMBDA e : GetNone(e, "years_to_profitability") = None)

ProfitabilitySlots ==
  LET merged_np == merge_overlapping(nonprof_studios, "founded", "size_current_num")
      merged_p == merge_overlapping(prof_studios, "founded", "size_current_num")
      ytp(s) == s.name[1] \o " (" \o Fmt(Attr(s, "years_to_profitability")) \o ")"
      texts_p(s) == IF s.parts # <<>> THEN [j \in 1..Len(s.parts) |-> ytp(s.parts[j])]
                    ELSE << ytp(s) >>
  IN (IF nonprof_studios = <<>> THEN <<>>
      ELSE << MarkerSlot(
                MarkerTrace(merged_np, "kuroji-data nashi",
                  [n \in 1..Len(merged_np) |-> Get(merged_np[n], "founded", 2000)],
                  [n \in 1..Len(merged_np) |-> OrElse(Get(merged_np[n], "size_current_num", 10), 10)],
                  [n \in 1..Len(merged_np) |-> merged_np[n].name],
                  "size_current_num", MARKER_OPACITY_NONPROF, JStr("#999")),
                build_point_map(nonprof_studios, "founded", "size_current_num")) >>)
     \o
     (IF prof_studios = <<>> THEN <<>>
      ELSE << MarkerSlot(
                MarkerTrace(merged_p, "kuroji-data ari",
                  [n \in 1..Len(merged_p) |-> Get(merged_p[n], "founded", 2000)],
                  [n \in 1..Len(merged_p) |-> OrElse(Get(merged_p[n], "size_current_num", 10), 10)],
                  [n \in 1..Len(merged_p) |-> texts_p(merged_p[n])],
                  "size_current_num", MARKER_OPACITY_FULL, JStr("#2E7D32")),
                build_point_map(prof_studios, "founded", "size_current_num")) >>)

(* The slots of each view, in the order the builder appends them *)
ViewSlots(view_key) ==
  CASE view_key = "founded" -> FoundedSlots
    [] view_key = "current" -> CurrentSlots
    [] view_key = "growth" -> GrowthMarkerSlots \o GrowthLineSlots
    [] view_key = "business_model" -> BusinessModelSlots
    [] view_key = "ai_adoption" -> AiAdoptionSlots
    [] view_key = "revenue" -> RevenueSlots
    [] view_key = "ownership" -> OwnershipSlots
    [] view_key = "platform" -> PlatformSlots
    [] view_key = "profitability" -> ProfitabilitySlots

(* The finished build: traces, trace_point_maps, growth_line_studio_indices *)
(* and visibility_map (with its extra key growth_lines)                     *)
Sections == Tup([v \in 1..Len(VIEW_KEYS) |-> Tup(ViewSlots(VIEW_KEYS[v]))])

BuildTraces(secs) ==
  LET slots == Flatten(secs)
      RECURSIVE start(_)
      start(v) == IF v = 1 THEN 0 ELSE start(v - 1) + Len(secs[v - 1])
      idx(v) == [n \in 1..Len(secs[v]) |-> start(v) + n]
      vnum(view_key) == CHOOSE v \in 1..Len(VIEW_KEYS) : VIEW_KEYS[v] = view_key
  IN [ traces |-> [i \in 1..Len(slots) |-> slots[i].tr],
       trace_point_maps |-> [i \in {j \in 1..Len(slots) : slots[j].hasPm} |-> slots[i].pm],
       growth_line_studio_indices |->
          [i \in {j \in 1..Len(slots) : slots[j].hasLs} |-> slots[i].ls],
       visibility_map |->
          [k \in Range(VIEW_KEYS) \cup {"growth_lines"} |->
             IF k = "growth_lines"
             THEN SelectSeq(idx(vnum("growth")), LAMBDA i : slots[i].hasLs)
             ELSE idx(vnum(k))] ]

----------------------------------------------------------------------------
(* The page: data handed to the script *)

(* One element of studios_js: the fields the script reads *)
studios_js(i) ==
  LET s == Raw(i)
  IN [ idx |-> i, name |-> Attr(s, "name"), name_en |-> "",
       region |-> Attr(s, "region"),
       founded |-> GetNone(s, "founded"),
       size_founded_num |-> OrElse(GetNone(s, "size_founded_num"), 10),
       size_current_num |-> GetNone(s, "size_current_num"),
       notable_works |-> Attr(s, "notable_works"),
       ownership_type |-> Attr(s, "ownership_type"),
       ai_adoption_level |-> Attr(s, "ai_adoption_level") ]

STUDIOS == Tup([i \in 1..Len(studios) |-> studios_js(i)])
totalStudios == Len(studios)

(* A faulty make_visibility that never hides the series of the first view: *)
(* what C9 excludes                                                        *)
make_visibility_keep_first(view_key) ==
  Tup([i \in 1..Len(traces) |->
         i \in Range(visibility_map[view_key]) \cup Range(visibility_map["founded"])])

(* make_visibility(view_key), as the list of flags of a view button *)
make_visibility(view_key) ==
  Tup([i \in 1..Len(traces) |-> i \in Range(visibility_map[view_key])])

(* fig.data with tr.visible set: what the page is first drawn from *)
InitialPlotData ==
  LET initial_vis == make_visibility("founded")
  IN Tup([i \in 1..Len(traces) |->
            [ visible |-> initial_vis[i],
              x |-> traces[i].x, y |-> traces[i].y, text |-> traces[i].text,
              hovertext |-> traces[i].hovertext,
              marker_opacity |-> traces[i].marker_opacity,
              textfont_color |-> traces[i].textfont_color ]])

----------------------------------------------------------------------------
(* The filter inputs.  A text or number input holds a string, modelled as  *)
(* the sequence of its characters.                                         *)

MatchAll ==
  [ yearMin |-> <<>>, yearMax |-> <<>>, showDom |-> TRUE, showIntl |-> TRUE,
    sizeMin |-> <<>>, sizeMax |-> <<>>, searchText |-> <<>>,
    aiNone |-> TRUE, aiExp |-> TRUE, aiProd |-> TRUE, aiCore |-> TRUE,
    ownIndep |-> TRUE, ownSub |-> TRUE, ownGroup |-> TRUE ]

(* What the user may have typed or ticked *)
FilterPool ==
  { MatchAll,
    [MatchAll EXCEPT !.yearMin = <<"2", "0", "0", "0">>, !.sizeMin = <<"5", "0">>],
    [MatchAll EXCEPT !.showIntl = FALSE, !.searchText = <<" ", "B">>] }

Digits == <<"0", "1", "2", "3", "4", "5", "6", "7", "8", "9">>
IsDigit(c) == c \in Range(Digits)
DigitVal(c) == (CHOOSE d \in 1..10 : Digits[d] = c) - 1

(* parseInt(str): the leading decimal digits, NaN when there is none *)
RECURSIVE ParseDigits(_, _)
ParseDigits(str, acc) ==
  IF str = <<>> \/ ~IsDigit(Head(str)) THEN acc
  ELSE ParseDigits(Tail(str), 10 * acc + DigitVal(Head(str)))

(* A faulty parseInt that gives 0 where there is no number to read *)
parseIntZeroForNaN(str) ==
  IF str = <<>> \/ ~IsDigit(Head(str)) THEN [nan |-> FALSE, v |-> 0]
  ELSE [nan |-> FALSE, v |-> ParseDigits(str, 0)]

parseInt(str) ==
  IF str = <<>> \/ ~IsDigit(Head(str)) THEN [nan |-> TRUE, v |-> 0]
  ELSE [nan |-> FALSE, v |-> ParseDigits(str, 0)]

(* JavaScript a < b and a > b for a number-or-null a and a parsed b *)
JsNum(a) == IF a = None THEN 0 ELSE a
JsLess(a, b) == ~b.nan /\ JsNum(a) < b.v
JsGreater(a, b) == ~b.nan /\ JsNum(a) > b.v

(* toLowerCase on the letters of the model *)
LowerChar(c) ==
  CASE c = "A" -> "a" [] c = "B" -> "b" [] c = "C" -> "c" [] c = "E" -> "e"
    [] c = "G" -> "g" [] c = "X" -> "x" [] c = "Z" -> "z" [] OTHER -> c
toLowerCase(str) == [i \in 1..Len(str) |-> LowerChar(str[i])]

RECURSIVE trim(_)
trim(str) ==
  IF str = <<>> THEN str
  ELSE IF Head(str) = " " THEN trim(Tail(str))
  ELSE IF str[Len(str)] = " " THEN trim(SubSeq(str, 1, Len(str) - 1))
  ELSE str

RECURSIVE JoinSpace(_)
JoinSpace(ws) ==
  IF ws = <<>> THEN <<>>
  ELSE IF Len(ws) = 1 THEN Chars(ws[1]) ELSE Chars(ws[1]) \o <<" ">> \o JoinSpace(Tail(ws))

(* haystack.indexOf(needle) !== -1 *)
Contains(hay, needle) ==
  \E k \in 0..(Len(hay) - Len(needle)) : SubSeq(hay, k + 1, k + Len(needle)) = needle

(* getCurrentView(): the view of the first visible trace, "founded" when   *)
(* no visible trace belongs to a view                                      *)
getCurrentView(data) ==
  LET inView(i, view) == i \in Range(visibility_map[view])
      cands == { i \in 1..Len(data) :
                   data[i].visible /\ \E v \in 1..Len(VIEW_KEYS) : inView(i, VIEW_KEYS[v]) }
      first == CHOOSE i \in cands : \A j \in cands : i <= j
      vfirst == CHOOSE v \in 1..Len(VIEW_KEYS) :
                  /\ inView(first, VIEW_KEYS[v])
                  /\ \A w \in 1..(v - 1) : ~inView(first, VIEW_KEYS[w])
  IN IF cands = {} THEN "founded" ELSE VIEW_KEYS[vfirst]

studioMatchesFilter(studio, fields, data) ==
  LET searchText == trim(toLowerCase(fields.searchText))
      view == getCurrentView(data)
      sizeVal == IF view = "founded" THEN studio.size_founded_num ELSE studio.size_current_num
      haystack == toLowerCase(Chars(studio.name) \o <<" ">> \o Chars(studio.name_en)
                              \o <<" ">> \o JoinSpace(studio.notable_works))
      aiLevel == IF studio.ai_adoption_level = NoneStr THEN "none" ELSE studio.ai_adoption_level
      ownType == IF studio.ownership_type = NoneStr THEN "independent" ELSE studio.ownership_type
      founded == studio.founded # None /\ studio.founded # 0
  IN /\ ~(studio.region = "domestic" /\ ~fields.showDom)
     /\ ~(studio.region = "international" /\ ~fields.showIntl)
     /\ ~(fields.yearMin # <<>> /\ founded /\ JsLess(studio.founded, parseInt(fields.yearMin)))
     /\ ~(fields.yearMax # <<>> /\ founded /\ JsGreater(studio.founded, parseInt(fields.yearMax)))
     /\ ~(fields.sizeMin # <<>> /\ JsLess(sizeVal, parseInt(fields.sizeMin)))
     /\ ~(fields.sizeMax # <<>> /\ JsGreater(sizeVal, parseInt(fields.sizeMax)))
     /\ ~(searchText # <<>> /\ ~Contains(haystack, searchText))
     /\ ~(aiLevel = "none" /\ ~fields.aiNone)
     /\ ~(aiLevel = "experimental" /\ ~fields.aiExp)
     /\ ~(aiLevel = "production" /\ ~fields.aiProd)
     /\ ~(aiLevel = "core" /\ ~fields.aiCore)
     /\ ~(ownType = "independent" /\ ~fields.ownIndep)
     /\ ~(ownType = "subsidiary" /\ ~fields.ownSub)
     /\ ~(ownType = "group_company" /\ ~fields.ownGroup)

(* STUDIOS.map(studioMatchesFilter) *)
MatchResults(fields, data) ==
  Tup([i \in 1..Len(studios) |-> studioMatchesFilter(STUDIOS[i], fields, data)])

----------------------------------------------------------------------------
(* The Filter Engine *)

(* text.split("<br>" SEP "<br>") *)
RECURSIVE SplitSep(_)
SplitSep(lines) ==
  IF \A i \in 1..Len(lines) : lines[i] # SEP THEN <<lines>>
  ELSE LET k == CHOOSE i \in 1..Len(lines) :
                  lines[i] = SEP /\ \A j \in 1..(i - 1) : lines[j] # SEP
       IN <<SubSeq(lines, 1, k - 1)>> \o SplitSep(SubSeq(lines, k + 1, Len(lines)))

(* Plotly.restyle of one attribute of one trace: an undefined value is     *)
(* skipped (the attribute keeps its value), null removes the attribute     *)
Restyle(old, new) ==
  IF new.k = "undefined" THEN old
  ELSE IF new.k = "null" THEN JUndef
  ELSE new

(* initOriginalData: the record kept for one trace.  d.textfont exists on  *)
(* the marker traces (each sets textfont) and on no line trace; a textfont *)
(* without a color leaves textfont_color undefined                         *)
SnapshotOfTrace(d, hasTextfont) ==
  [ x |-> d.x, y |-> d.y,
    hovertext |-> IF d.hovertext.k = "array" THEN d.hovertext ELSE JNull,
    text |-> IF d.text.k = "array" THEN d.text ELSE JNull,
    marker_opacity |-> IF d.marker_opacity.k = "undefined" THEN JNull ELSE d.marker_opacity,
    textfont_color |-> IF hasTextfont THEN d.textfont_color ELSE JNull ]

initOriginalData(data) ==
  Tup([i \in 1..Len(data) |-> SnapshotOfTrace(data[i], traces[i].mode = "markers+text")])

(* "if (!orig || !orig.x) continue": the trace is skipped without a snapshot *)
HasOrig(orig, ti) == ti \in DOMAIN orig

(* The hover text of a live point of the marker loop *)
LiveHovertext(orig, pi, studioIndices, matchResults) ==
  IF Len(studioIndices) > 1 /\ orig.hovertext.k = "array"
  THEN LET parts == SplitSep(orig.hovertext.a[pi])
           keep == { si \in 1..Len(studioIndices) :
                       /\ matchResults[studioIndices[si]]
                       /\ si <= Len(parts) /\ parts[si] # <<>> }
           order == SeqOfSet(keep)
       IN JoinSep([n \in 1..Len(order) |-> parts[order[n]]])
  ELSE IF orig.hovertext.k = "array" THEN orig.hovertext.a[pi] ELSE <<>>

(* A faulty marker loop that derives the hover text from the live trace    *)
(* instead of the snapshot: the drift C7 excludes                          *)
ApplyMarkerTraceFromLive(d, orig, pointMap, matchResults) ==
  LET baseTextColor == orig.textfont_color
      baseOpacity == orig.marker_opacity
      anyMatch(pi) == \E si \in 1..Len(pointMap[pi]) : matchResults[pointMap[pi][si]]
      newOpacity(pi) ==
        IF anyMatch(pi)
        THEN IF baseOpacity.k = "number" THEN baseOpacity.n
             ELSE IF baseOpacity.k = "array" THEN baseOpacity.a[pi] ELSE 100
        ELSE 0
      newTextColor(pi) ==
        IF anyMatch(pi)
        THEN IF baseTextColor.k = "string" THEN baseTextColor.s
             ELSE IF baseTextColor.k = "array" THEN baseTextColor.a[pi] ELSE "#000"
        ELSE "rgba(0,0,0,0)"
      newHovertext(pi) ==
        IF anyMatch(pi)
        THEN LiveHovertext([orig EXCEPT !.hovertext = d.hovertext], pi, pointMap[pi],
                           matchResults)
        ELSE <<>>
  IN [d EXCEPT
        !.marker_opacity = Restyle(@, JArr([pi \in 1..Len(pointMap) |-> newOpacity(pi)])),
        !.textfont_color = Restyle(@, JArr([pi \in 1..Len(pointMap) |-> newTextColor(pi)])),
        !.hovertext = Restyle(@, JArr([pi \in 1..Len(pointMap) |-> newHovertext(pi)]))]

(* The marker loop of applyFilters for one trace of TRACE_POINT_MAP *)
ApplyMarkerTrace(d, orig, pointMap, matchResults) ==
  LET baseTextColor == orig.textfont_color
      baseOpacity == orig.marker_opacity
      anyMatch(pi) == \E si \in 1..Len(pointMap[pi]) : matchResults[pointMap[pi][si]]
      newOpacity(pi) ==
        IF anyMatch(pi)
        THEN IF baseOpacity.k = "number" THEN baseOpacity.n
             ELSE IF baseOpacity.k = "array" THEN baseOpacity.a[pi] ELSE 100
        ELSE 0
      newTextColor(pi) ==
        IF anyMatch(pi)
        THEN IF baseTextColor.k = "string" THEN baseTextColor.s
             ELSE IF baseTextColor.k = "array" THEN baseTextColor.a[pi] ELSE "#000"
        ELSE "rgba(0,0,0,0)"
      newHovertext(pi) ==
        IF anyMatch(pi) THEN LiveHovertext(orig, pi, pointMap[pi], matchResults) ELSE <<>>
  IN [d EXCEPT
        !.marker_opacity = Restyle(@, JArr([pi \in 1..Len(pointMap) |-> newOpacity(pi)])),
        !.textfont_color = Restyle(@, JArr([pi \in 1..Len(pointMap) |-> newTextColor(pi)])),
        !.hovertext = Restyle(@, JArr([pi \in 1..Len(pointMap) |-> newHovertext(pi)]))]

(* The trajectory-line loop of applyFilters for one trace *)
ApplyLineTrace(d, orig, studioList, matchResults) ==
  LET nulled(coords) ==
        Tup([c \in 1..Len(coords) |->
               IF /\ (c - 1) % 3 \in {0, 1}
                  /\ ((c - 1) \div 3) + 1 <= Len(studioList)
                  /\ ~matchResults[studioList[((c - 1) \div 3) + 1]]
               THEN None ELSE coords[c]])
  IN [d EXCEPT !.x = nulled(orig.x), !.y = nulled(orig.y)]

(* A faulty applyFilters that does not skip a series without a snapshot    *)
(* but restyles it from an empty one                                       *)
applyFiltersDataNoSkip(data, orig, fields) ==
  LET matchResults == MatchResults(fields, data)
      blank(d) == [d EXCEPT !.marker_opacity = JArr(<<>>), !.textfont_color = JArr(<<>>),
                            !.hovertext = JArr(<<>>)]
  IN Tup([ti \in 1..Len(data) |->
        IF ti \in DOMAIN trace_point_maps
        THEN (IF HasOrig(orig, ti)
              THEN ApplyMarkerTrace(data[ti], orig[ti], trace_point_maps[ti], matchResults)
              ELSE blank(data[ti]))
        ELSE IF ti \in DOMAIN growth_line_studio_indices /\ HasOrig(orig, ti)
        THEN ApplyLineTrace(data[ti], orig[ti], growth_line_studio_indices[ti], matchResults)
        ELSE data[ti]])

(* plotDiv.data after applyFilters *)
applyFiltersData(data, orig, fields) ==
  LET matchResults == MatchResults(fields, data)
  IN Tup([ti \in 1..Len(data) |->
        IF ti \in DOMAIN trace_point_maps /\ HasOrig(orig, ti)
        THEN ApplyMarkerTrace(data[ti], orig[ti], trace_point_maps[ti], matchResults)
        ELSE IF ti \in DOMAIN growth_line_studio_indices /\ HasOrig(orig, ti)
        THEN ApplyLineTrace(data[ti], orig[ti], growth_line_studio_indices[ti], matchResults)
        ELSE data[ti]])

(* updateStudioList: the hidden class of every list item, and the count *)
updateStudioListItems(items, matchResults) ==
  [idx \in DOMAIN items |-> ~matchResults[idx]]
CountTrue(f) == Cardinality({i \in DOMAIN f : f[i]})

(* The marker loop of resetFilters for one trace *)
ResetMarkerTrace(d, orig) ==
  LET baseOpacity == orig.marker_opacity
      opArr == IF baseOpacity.k = "number" THEN [p \in 1..Len(orig.x) |-> baseOpacity.n]
               ELSE IF baseOpacity.k = "array" THEN baseOpacity.a ELSE <<>>
  IN [d EXCEPT
        !.marker_opacity = Restyle(@, IF Len(opArr) > 0 THEN JArr(opArr) ELSE orig.marker_opacity),
        !.textfont_color = Restyle(@, orig.textfont_color),
        !.hovertext = Restyle(@, orig.hovertext)]

ResetLineTrace(d, orig) == [d EXCEPT !.x = orig.x, !.y = orig.y]

(* plotDiv.data after resetFilters *)
resetFiltersData(data, orig) ==
  Tup([ti \in 1..Len(data) |->
     IF ti \in DOMAIN trace_point_maps /\ HasOrig(orig, ti)
     THEN ResetMarkerTrace(data[ti], orig[ti])
     ELSE IF ti \in DOMAIN growth_line_studio_indices /\ HasOrig(orig, ti)
     THEN ResetLineTrace(data[ti], orig[ti])
     ELSE data[ti]])

(* Plotly "update" of a view button / restyle of visible *)
SetVisible(data, flags) ==
  Tup([i \in 1..Len(data) |-> [data[i] EXCEPT !.visible = flags[i]]])

growthLineIndices == Range(visibility_map["growth_lines"])

----------------------------------------------------------------------------
(* No call of a layout helper on its own is in progress *)
NoCall ==
  [ pc |-> "none", x_key |-> "", size_key |-> "", studio_list |-> <<>>, merged |-> <<>>,
    point_map |-> <<>>, text_positions |-> <<>>, merged_again |-> <<>>,
    text_positions_again |-> <<>> ]

(* No plotly_hover handler is running: isProximityHover as declared, the   *)
(* stack of handler invocations empty; events, computed and highlights     *)
(* count the hover events delivered, the neighbour computations made and   *)
(* the Plotly.Fx.hover calls issued                                        *)
NoHover ==
  [ isProximityHover |-> FALSE, stack |-> <<>>, events |-> 0, computed |-> 0, highlights |-> 0 ]

(* Initial state: the page as generated, before the load timer fires       *)

Init ==
  /\ studios \in Datasets
  /\ \E build \in { BuildTraces(secs) : secs \in {Sections} } :
        /\ traces = Tup(build.traces)
        /\ trace_point_maps = build.trace_point_maps
        /\ growth_line_studio_indices = build.growth_line_studio_indices
        /\ visibility_map = build.visibility_map
  /\ plotData = InitialPlotData
  /\ _originalData = <<>>
  /\ filterFields = MatchAll
  /\ filterCount = totalStudios
  /\ listItems = <<>>
  /\ listCount = totalStudios
  /\ linesVisible = TRUE
  /\ loadTimer = "pending"
  /\ viewTimers = 0
  /\ activeView = "founded"
  /\ heldPredicate = MatchAll
  /\ layoutCall = NoCall
  /\ hover = NoHover

(* A faulty load handler whose timer callback may run again and again: the *)
(* re-capture C8 excludes                                                  *)
LoadTimerRepeats == loadTimer \in {"pending", "fired"}

(* The load handler's timer fires once *)
LoadTimerEnabled == loadTimer = "pending"

(* setTimeout callback of the load handler: buildStudioList,               *)
(* initOriginalData, setupProximityHover, setupViewChangeListener          *)
LoadTimerFires ==
  /\ LoadTimerEnabled
  /\ loadTimer' = "fired"
  /\ listItems' = [idx \in 1..Len(studios) |-> FALSE]
  /\ _originalData' = initOriginalData(plotData)
  /\ UNCHANGED <<buildVars, plotData, filterFields, filterCount, listCount,
                 linesVisible, viewTimers, activeView, heldPredicate>>

(* The user edits the filter inputs (no handler runs) *)
EditFilter ==
  /\ \E f \in FilterPool : f # filterFields /\ filterFields' = f
  /\ UNCHANGED <<buildVars, plotData, _originalData, listVars, linesVisible,
                 loadTimer, viewTimers, activeView, heldPredicate>>

(* applyFilters(): the whole handler *)
applyFilters ==
  /\ plotData' = applyFiltersData(plotData, _originalData, filterFields)
  /\ LET matchResults == MatchResults(filterFields, plotData)
     IN /\ filterCount' = CountTrue(matchResults)
        /\ listItems' = updateStudioListItems(listItems, matchResults)
        /\ listCount' = CountTrue([idx \in DOMAIN listItems |-> matchResults[idx]])
  /\ heldPredicate' = filterFields
  /\ UNCHANGED <<buildVars, _originalData, filterFields, linesVisible, loadTimer, activeView>>

(* The "apply" button *)
ClickApply == applyFilters /\ UNCHANGED viewTimers

(* resetFilters(): the "reset" button *)
resetFilters ==
  /\ filterFields' = MatchAll
  /\ plotData' = resetFiltersData(plotData, _originalData)
  /\ filterCount' = totalStudios
  /\ listItems' = [idx \in DOMAIN listItems |-> FALSE]
  /\ listCount' = totalStudios
  /\ heldPredicate' = MatchAll
  /\ UNCHANGED <<buildVars, _originalData, linesVisible, loadTimer, viewTimers, activeView>>

(* A view button: Plotly "update" with make_visibility(view_key), then     *)
(* plotly_buttonclicked; the listener (installed by the load timer) sets a *)
(* 100 ms timer                                                            *)
ViewButton(view_key) ==
  /\ viewTimers < MaxViewTimers
  /\ plotData' = SetVisible(plotData, make_visibility(view_key))
  /\ activeView' = view_key
  /\ viewTimers' = IF loadTimer = "fired" THEN viewTimers + 1 ELSE viewTimers
  /\ UNCHANGED <<buildVars, _originalData, filterFields, listVars, linesVisible,
                 loadTimer, heldPredicate>>

ClickView == \E v \in 1..Len(VIEW_KEYS) : ViewButton(VIEW_KEYS[v])

(* The 100 ms timer of the view-change listener fires *)
ViewTimerFires ==
  /\ viewTimers > 0
  /\ viewTimers' = viewTimers - 1
  /\ applyFilters

(* toggleLines() *)
toggleLines ==
  /\ linesVisible' = ~linesVisible
  /\ plotData' = Tup([i \in 1..Len(plotData) |->
                        IF i \in growthLineIndices
                        THEN [plotData[i] EXCEPT !.visible = ~linesVisible]
                        ELSE plotData[i]])
  /\ UNCHANGED <<buildVars, _originalData, filterFields, listVars, loadTimer,
                 viewTimers, activeView, heldPredicate>>

Next ==
  \/ LoadTimerFires
  \/ EditFilter
  \/ ClickApply
  \/ resetFilters
  \/ ClickView
  \/ ViewTimerFires
  \/ toggleLines

Spec == Init /\ [][Next]_vars

----------------------------------------------------------------------------
(* What a rendered point shows.  An attribute that holds one value applies *)
(* it to every point; an array applies entry pi to point pi; a point the   *)
(* attribute holds nothing for is Unset.                                   *)

Unset == "(unset)"
TRANSPARENT == "rgba(0,0,0,0)"

NumPoints(d) == Len(d.x)

OpacityAt(d, pi) ==
  IF d.marker_opacity.k = "number" THEN JNum(d.marker_opacity.n)
  ELSE IF d.marker_opacity.k = "array" /\ pi <= Len(d.marker_opacity.a)
  THEN JNum(d.marker_opacity.a[pi])
  ELSE JUndef

ColorAt(d, pi) ==
  IF d.textfont_color.k = "string" THEN d.textfont_color.s
  ELSE IF d.textfont_color.k = "array" /\ pi <= Len(d.textfont_color.a)
  THEN d.textfont_color.a[pi]
  ELSE Unset

HoverAt(d, pi) ==
  IF d.hovertext.k = "array" /\ pi <= Len(d.hovertext.a) THEN d.hovertext.a[pi]
  ELSE <<Unset>>

PointLook(d, pi) ==
  [opacity |-> OpacityAt(d, pi), color |-> ColorAt(d, pi), hover |-> HoverAt(d, pi)]

(* The visual state of every series: coordinates and the look of each point *)
VisualState(data) ==
  Tup([i \in 1..Len(data) |->
         [ x |-> data[i].x, y |-> data[i].y,
           points |-> Tup([pi \in 1..NumPoints(data[i]) |-> PointLook(data[i], pi)]) ]])

Suppressed(d, pi) ==
  /\ OpacityAt(d, pi) = JNum(0)
  /\ ColorAt(d, pi) = TRANSPARENT
  /\ HoverAt(d, pi) = <<>>

IsMarkerSeries(i) == traces[i].mode = "markers+text"

(* A step that is a run of the whole applyFilters / resetFilters handler *)
ApplyStep == UNCHANGED <<filterFields, activeView, linesVisible, loadTimer>> /\ applyFilters
ResetStep == UNCHANGED <<activeView, linesVisible, loadTimer, viewTimers>> /\ resetFilters

----------------------------------------------------------------------------
(* C1: every marker series has a provenance map in trace_point_maps, the   *)
(* map has one entry per rendered point of the series, and entry i lists   *)
(* exactly the studios merged into rendered point i.                       *)
C1_ProvenanceRecorded ==
  \A i \in 1..Len(traces) :
    IsMarkerSeries(i) =>
      /\ i \in DOMAIN trace_point_maps
      /\ Len(trace_point_maps[i]) = NumPoints(traces[i])
      /\ \A pi \in 1..NumPoints(traces[i]) : trace_point_maps[i][pi] = traces[i].members[pi]

(* The points of a page whose members are all rejected by matches, and the *)
(* points with a member it accepts                                         *)
AnyMatch(ti, pi, matches) ==
  \E k \in 1..Len(traces[ti].members[pi]) : matches[traces[ti].members[pi][k]]

(* What C2 requires of the page applyFilters leaves, matches being the     *)
(* verdict of the predicate on every studio                                *)
C2_Post(data, matches) ==
  \A ti \in DOMAIN trace_point_maps : \A pi \in 1..NumPoints(data[ti]) :
    /\ AnyMatch(ti, pi, matches) <=> OpacityAt(data[ti], pi) # JNum(0)
    /\ ~AnyMatch(ti, pi, matches) => Suppressed(data[ti], pi)

(* C2: after applyFilters, in every series with a provenance map a point   *)
(* is live (opacity not 0) iff one of its members matches the predicate,   *)
(* and a point none of whose members match has opacity 0, a transparent    *)
(* label colour and an empty hover text.                                   *)
C2_SuppressedIffNoMatch ==
  [][ApplyStep =>
       \A matches \in {MatchResults(filterFields, plotData)} : C2_Post(plotData', matches)]_vars

(* What C3 requires of the page applyFilters leaves *)
C3_Post(data, matches) ==
  \A ti \in DOMAIN trace_point_maps : \A pi \in 1..NumPoints(data[ti]) :
    \A mem \in {traces[ti].members[pi]} :
      \A order \in {SeqOfSet({k \in 1..Len(mem) : matches[mem[k]]})} :
        \A frags \in {SplitSep(traces[ti].hovertext.a[pi])} :
          (Len(mem) >= 2 /\ Len(order) >= 1) =>
            /\ OpacityAt(data[ti], pi) = OpacityAt(traces[ti], pi)
            /\ ColorAt(data[ti], pi) = ColorAt(traces[ti], pi)
            /\ HoverAt(data[ti], pi) = JoinSep([n \in 1..Len(order) |-> frags[order[n]]])

(* C3: after applyFilters, a merged point with k >= 2 members of which     *)
(* m >= 1 match keeps the opacity and label colour recorded at             *)
(* construction, and its hover text is the m fragments of the matching     *)
(* members, in provenance order, joined by the separator.                  *)
C3_PartialGroupKeepsLook ==
  [][ApplyStep =>
       \A matches \in {MatchResults(filterFields, plotData)} : C3_Post(plotData', matches)]_vars

(* What C4 requires of the pages before and after a filter operation *)
C4_Frame(before, after) ==
  \A i \in 1..Len(before) :
    /\ NumPoints(after[i]) = NumPoints(before[i])
    /\ after[i].visible = before[i].visible
    /\ after[i].text = before[i].text
    /\ IsMarkerSeries(i) =>
         /\ after[i].x = before[i].x
         /\ after[i].y = before[i].y
         /\ after[i].marker_opacity.k = "array" =>
              Len(after[i].marker_opacity.a) = NumPoints(before[i])
         /\ after[i].textfont_color.k = "array" =>
              Len(after[i].textfont_color.a) = NumPoints(before[i])
         /\ after[i].hovertext.k = "array" =>
              Len(after[i].hovertext.a) = NumPoints(before[i])

(* C4: applyFilters and resetFilters change no series' point count,        *)
(* visibility or label text and no marker series' coordinates, and the     *)
(* opacity, label-colour and hover-text arrays of a marker series have one *)
(* entry per rendered point afterwards.                                    *)
C4_FilteringKeepsGeometry == [][(ApplyStep \/ ResetStep) => C4_Frame(plotData, plotData')]_vars

(* What C5 requires of the page resetFilters leaves *)
C5_Post(data, orig) ==
  \A i \in DOMAIN orig :
    /\ \A pi \in 1..NumPoints(data[i]) : PointLook(data[i], pi) = PointLook(orig[i], pi)
    /\ data[i].x = orig[i].x
    /\ data[i].y = orig[i].y

(* C5: after resetFilters every series of the snapshot shows, at every     *)
(* point, the opacity, label colour and hover text the snapshot recorded,  *)
(* and every trajectory line has the snapshot's coordinates.               *)
C5_ResetRestoresSnapshot == [][ResetStep => C5_Post(plotData', _originalData)]_vars

(* C6: resetFilters followed by applyFilters with the match-all predicate  *)
(* leaves every series in the visual state it had right after              *)
(* construction.                                                           *)
C6_RoundTrip ==
  VisualState(applyFiltersData(resetFiltersData(plotData, _originalData),
                               _originalData, MatchAll))
    = VisualState(InitialPlotData)

(* The page as constructed and switched to a view, filtered *)
FilteredView(orig, fields, view) ==
  applyFiltersData(SetVisible(InitialPlotData, make_visibility(view)), orig, fields)

(* C7: the visual state applyFilters produces is the one obtained from the *)
(* snapshot, the predicate and the active view alone, i.e. by filtering    *)
(* the page as constructed and switched to the active view, whatever the   *)
(* applyFilters, resetFilters and view switches that came before.          *)
C7_NoDrift ==
  [][ApplyStep =>
       VisualState(plotData') = VisualState(FilteredView(_originalData, filterFields, activeView))]_vars

(* C7 witness: with the snapshot taken and the page reset before, a        *)
(* predicate that excludes a studio is in force in the current view: one   *)
(* point is suppressed and another lost part of its hover text.            *)
C7_Witness ==
  /\ loadTimer = "fired"
  /\ activeView = "current"
  /\ heldPredicate # MatchAll
  /\ \E ti \in DOMAIN trace_point_maps : \E pi \in 1..NumPoints(plotData[ti]) :
       Suppressed(plotData[ti], pi)
  /\ \E ti \in DOMAIN trace_point_maps : \E pi \in 1..NumPoints(plotData[ti]) :
       /\ ~Suppressed(plotData[ti], pi)
       /\ HoverAt(plotData[ti], pi) # HoverAt(traces[ti], pi)

(* The snapshot holds the construction-time look of every series *)
SnapshotIsConstruction(orig) ==
  orig # <<>> =>
    /\ DOMAIN orig = DOMAIN traces
    /\ \A i \in DOMAIN traces :
         /\ orig[i].x = traces[i].x
         /\ orig[i].y = traces[i].y
         /\ \A pi \in 1..NumPoints(traces[i]) : PointLook(orig[i], pi) = PointLook(traces[i], pi)

(* C8: the snapshot is written once, by the load timer, and while it       *)
(* exists it holds every series' construction-time coordinates, opacity,   *)
(* label colour and hover text, whatever applyFilters, resetFilters, view  *)
(* switches and toggleLines ran before or after the capture.               *)
C8_SnapshotImmutable ==
  [][ /\ _originalData' # _originalData => _originalData = <<>>
      /\ SnapshotIsConstruction(_originalData') ]_vars

(* C8 witness: after the capture the lines were toggled off, the view was  *)
(* switched and a filter suppressed a point, and the snapshot exists.      *)
C8_Witness ==
  /\ _originalData # <<>>
  /\ ~linesVisible
  /\ activeView # "founded"
  /\ \E ti \in DOMAIN trace_point_maps : \E pi \in 1..NumPoints(plotData[ti]) :
       Suppressed(plotData[ti], pi)

InExactlyOneView ==
  \A i \in 1..Len(traces) :
    Cardinality({v \in 1..Len(VIEW_KEYS) : i \in Range(visibility_map[VIEW_KEYS[v]])}) = 1

(* C9: a switch to view V makes visible exactly the series of              *)
(* visibility_map[V], and every series is in the visibility set of exactly *)
(* one of the nine views.                                                  *)
C9_ViewSwitchVisibility ==
  [][ /\ InExactlyOneView
      /\ \A v \in 1..Len(VIEW_KEYS) :
           (activeView' = VIEW_KEYS[v] /\ UNCHANGED <<filterFields, linesVisible, loadTimer>>
              /\ ViewButton(VIEW_KEYS[v])) =>
             \A i \in 1..Len(plotData) :
               plotData'[i].visible <=> i \in Range(visibility_map[VIEW_KEYS[v]]) ]_vars

(* C9 witness: the page was switched to the ownership view while the lines *)
(* were toggled off; its series, and only they, are visible.               *)
C9_Witness ==
  /\ activeView = "ownership"
  /\ ~linesVisible
  /\ \E i \in 1..Len(plotData) : plotData[i].visible
  /\ \E i \in 1..Len(plotData) : ~plotData[i].visible
  /\ \A i \in 1..Len(plotData) :
       plotData[i].visible <=> i \in Range(visibility_map["ownership"])

(* C10: when the timer of a view switch re-invokes the engine, the studios *)
(* it excludes are those the predicate last put in force by applyFilters   *)
(* or resetFilters excludes, evaluated with the new view's size attribute. *)
C10_HeldPredicateReapplied ==
  [][ViewTimerFires =>
       listItems' = updateStudioListItems(listItems, MatchResults(heldPredicate, plotData))]_vars

----------------------------------------------------------------------------
(* The size clause *)

(* Predicates that differ from match-all in the size clause only *)
SizeProbes ==
  { [MatchAll EXCEPT !.sizeMin = <<"1", "5", "0">>],
    [MatchAll EXCEPT !.sizeMax = <<"1", "5", "0">>] }

(* The studio with both size attributes set to the one that belongs to a   *)
(* view: the founding-time size in "founded", the current size elsewhere   *)
WithSizeOfView(studio, view) ==
  LET size == IF view = "founded" THEN studio.size_founded_num ELSE studio.size_current_num
  IN [studio EXCEPT !.size_founded_num = size, !.size_current_num = size]

(* C11: whenever the predicate is evaluated, its verdict on a studio       *)
(* depends on the studio's sizes only through the size attribute of the    *)
(* active view (founding-time size in "founded", current size in the other *)
(* eight views), whatever the state of the trajectory-line toggle.         *)
C11_SizeClauseReadsActiveView ==
  \A i \in 1..Len(studios) : \A fields \in SizeProbes :
    studioMatchesFilter(STUDIOS[i], fields, plotData)
      = studioMatchesFilter(WithSizeOfView(STUDIOS[i], activeView), fields, plotData)

----------------------------------------------------------------------------
(* Atomicity of a view switch *)

(* The suppressed points of a page *)
SuppressedPoints(data) ==
  { <<ti, pi>> \in (DOMAIN trace_point_maps) \X (1..(MaxStudios + 1)) :
      pi <= NumPoints(data[ti]) /\ Suppressed(data[ti], pi) }

(* The points suppressed are those the predicate in force suppresses in a  *)
(* view                                                                    *)
FilterStateOfView(data, view) ==
  SuppressedPoints(data) = SuppressedPoints(FilteredView(_originalData, heldPredicate, view))

(* C12: a view switch is one atomic step: when the filter-derived state    *)
(* corresponds to the view before the click of a view button, the state    *)
(* the click leaves, with the new view's series visible, corresponds to    *)
(* the new view, without any further step.                                 *)
C12_ViewSwitchAtomic ==
  [][ \A v \in 1..Len(VIEW_KEYS) :
        ( /\ activeView' = VIEW_KEYS[v]
          /\ UNCHANGED <<filterFields, linesVisible, loadTimer>>
          /\ ViewButton(VIEW_KEYS[v])
          /\ FilterStateOfView(plotData, activeView) )
        => FilterStateOfView(plotData', VIEW_KEYS[v]) ]_vars

----------------------------------------------------------------------------
(* The layout helpers on their own.  merge_overlapping, build_point_map    *)
(* and resolve_label_positions are pure functions of a studio list and two *)
(* selectors; this specification draws a store and a selector pair the     *)
(* builder uses, and calls them as make_scatter does: merge, place the     *)
(* labels of the merged list; then the merged list is merged once more.    *)

MaxListLen == 3

LayoutPool == <<
  [name |-> "Ab", founded |-> 1990, original_score |-> 50, original_score_founded |-> Absent,
   size_founded_num |-> 100, size_current_num |-> 200, ip_ownership_score |-> 30,
   revenue_billion_yen |-> None, operating_margin |-> Absent],
  [name |-> "Cd", founded |-> 2005, original_score |-> 50, original_score_founded |-> Absent,
   size_founded_num |-> 100, size_current_num |-> 200, ip_ownership_score |-> 0,
   revenue_billion_yen |-> 5, operating_margin |-> None],
  [name |-> "Ef", founded |-> 2005, original_score |-> 20, original_score_founded |-> Absent,
   size_founded_num |-> Absent, size_current_num |-> None, ip_ownership_score |-> 10,
   revenue_billion_yen |-> 5, operating_margin |-> 0],
  [name |-> "Gh", founded |-> 2010, original_score |-> 20, original_score_founded |-> 40,
   size_founded_num |-> 10, size_current_num |-> 0, ip_ownership_score |-> 10,
   revenue_billion_yen |-> 5, operating_margin |-> Absent],
  [name |-> "Ij", founded |-> 1990, original_score |-> 52, original_score_founded |-> 50,
   size_founded_num |-> 120, size_current_num |-> 210, ip_ownership_score |-> 35,
   revenue_billion_yen |-> 6, operating_margin |-> 3],
  [name |-> "Kl", founded |-> 2010, original_score |-> 22, original_score_founded |-> Absent,
   size_founded_num |-> 10, size_current_num |-> 20, ip_ownership_score |-> 12,
   revenue_billion_yen |-> 6, operating_margin |-> 0] >>

(* Every list of at most MaxListLen distinct pool studios, in every order *)
LayoutStores ==
  { [i \in 1..Len(sel) |-> LayoutPool[sel[i]]] :
      sel \in { q \in UNION { [1..n -> 1..Len(LayoutPool)] : n \in 0..MaxListLen } :
                  \A i, j \in DOMAIN q : i # j => q[i] # q[j] } }

(* The (x_key, size_key) pairs the builder passes *)
LayoutSelectors ==
  { <<"original_score", "size_founded_num">>, <<"original_score", "size_current_num">>,
    <<"original_score_founded", "size_founded_num">>, <<"original_score", "ip_ownership_score">>,
    <<"operating_margin", "revenue_billion_yen">>, <<"founded", "size_current_num">> }

pageVars == <<traces, trace_point_maps, growth_line_studio_indices, visibility_map,
              plotData, _originalData, filterFields, filterCount, listItems, listCount,
              linesVisible, loadTimer, viewTimers, activeView, heldPredicate, hover>>

InitLayout ==
  /\ studios \in LayoutStores
  /\ traces = <<>> /\ trace_point_maps = <<>> /\ growth_line_studio_indices = <<>>
  /\ visibility_map = <<>> /\ plotData = <<>> /\ _originalData = <<>>
  /\ filterFields = MatchAll /\ filterCount = 0 /\ listItems = <<>> /\ listCount = 0
  /\ linesVisible = TRUE /\ loadTimer = "pending" /\ viewTimers = 0
  /\ activeView = "founded" /\ heldPredicate = MatchAll /\ hover = NoHover
  /\ \E sel \in LayoutSelectors :
       layoutCall = [NoCall EXCEPT !.pc = "input", !.x_key = sel[1], !.size_key = sel[2],
                                   !.studio_list = AllStudios]

(* studio_list = merge_overlapping(studio_list, x_key, size_key), and the  *)
(* point map build_point_map records for the same arguments                *)
CallMerge ==
  /\ layoutCall.pc = "input"
  /\ layoutCall' =
       [layoutCall EXCEPT
          !.pc = "merged",
          !.merged = merge_overlapping(layoutCall.studio_list, layoutCall.x_key,
                                       layoutCall.size_key),
          !.point_map = Tup(build_point_map(layoutCall.studio_list, layoutCall.x_key,
                                            layoutCall.size_key))]
  /\ UNCHANGED <<studios, pageVars>>

(* text_positions = resolve_label_positions(studio_list, size_key, x_key) *)
CallResolveLabels ==
  /\ layoutCall.pc = "merged"
  /\ layoutCall' =
       [layoutCall EXCEPT
          !.pc = "labelled",
          !.text_positions = resolve_label_positions(layoutCall.merged, layoutCall.size_key,
                                                     layoutCall.x_key)]
  /\ UNCHANGED <<studios, pageVars>>

(* merge_overlapping applied to a list it returned *)
CallMergeAgain ==
  /\ layoutCall.pc = "labelled"
  /\ layoutCall' =
       [layoutCall EXCEPT
          !.pc = "done",
          !.merged_again = merge_overlapping(layoutCall.merged, layoutCall.x_key,
                                             layoutCall.size_key)]
  /\ UNCHANGED <<studios, pageVars>>

(* resolve_label_positions run once more on the same merged list *)
CallResolveLabelsAgain ==
  /\ layoutCall.pc = "done"
  /\ \E again \in resolve_label_positions_runs(layoutCall.merged, layoutCall.size_key,
                                                layoutCall.x_key) :
       layoutCall' = [layoutCall EXCEPT !.pc = "relabelled", !.text_positions_again = again]
  /\ UNCHANGED <<studios, pageVars>>

NextLayout ==
  \/ CallMerge
  \/ CallResolveLabels
  \/ CallMergeAgain
  \/ CallResolveLabelsAgain

SpecLayout == InitLayout /\ [][NextLayout]_vars

----------------------------------------------------------------------------
(* The Grouper *)

(* A call of merge_overlapping / build_point_map has returned *)
Merged == layoutCall.pc \in {"merged", "labelled", "done", "relabelled"}

(* The merged points whose provenance lists studio i of the input list *)
PointsOf(i) ==
  { n \in 1..Len(layoutCall.point_map) :
      \E k \in 1..Len(layoutCall.point_map[n]) :
        layoutCall.point_map[n][k] = studio_global_idx(layoutCall.studio_list[i]) }

(* C13: merge_overlapping / build_point_map partition the input list:      *)
(* every studio of the list, also one without a size, is in the provenance *)
(* of exactly one merged point, once, and no merged point has an empty     *)
(* provenance; the members of the merged list are the provenance.          *)
C13_GrouperPartitions ==
  Merged =>
    /\ \A i \in 1..Len(layoutCall.studio_list) :
         /\ Cardinality(PointsOf(i)) = 1
         /\ \A n \in PointsOf(i) :
              Cardinality({ k \in 1..Len(layoutCall.point_map[n]) :
                              layoutCall.point_map[n][k]
                                = studio_global_idx(layoutCall.studio_list[i]) }) = 1
    /\ \A n \in 1..Len(layoutCall.point_map) : layoutCall.point_map[n] # <<>>
    /\ Len(layoutCall.merged) = Len(layoutCall.point_map)
    /\ \A n \in 1..Len(layoutCall.merged) :
         PointMembers(layoutCall.merged[n]) = layoutCall.point_map[n]

(* C13 witness: a list of three studios, one of them without a size, was   *)
(* grouped into two points, one of which merges two studios.               *)
C13_Witness ==
  /\ Merged
  /\ Len(layoutCall.studio_list) = 3
  /\ \E i \in 1..3 : ~Truthy(Attr(layoutCall.studio_list[i], layoutCall.size_key))
  /\ Len(layoutCall.point_map) = 2
  /\ \E n \in 1..2 : Len(layoutCall.point_map[n]) = 2

(* The (x, y) key of a studio as C14 states it: x as the selector gives    *)
(* it, y the size attribute, a missing one replaced by the sentinel 10     *)
StatedKey(e) ==
  << Get(e, layoutCall.x_key, Attr(e, "original_score")),
     IF Attr(e, layoutCall.size_key) \in {None, Absent} THEN 10
     ELSE Attr(e, layoutCall.size_key) >>

(* C14: two studios of the input list are in the same merged point iff     *)
(* their (x, y) keys are exactly equal, a missing y being replaced by the  *)
(* sentinel 10; studios whose coordinates differ are never merged.         *)
C14_MergedIffEqualKeys ==
  Merged =>
    \A i, j \in 1..Len(layoutCall.studio_list) :
      (PointsOf(i) = PointsOf(j))
        <=> (StatedKey(layoutCall.studio_list[i]) = StatedKey(layoutCall.studio_list[j]))

----------------------------------------------------------------------------
(* Plotted coordinates *)

(* C15: in every marker series of every view, no two distinct points have  *)
(* equal plotted (x, y) pairs, also when the x or y attribute of a studio  *)
(* is missing and a default is plotted.                                    *)
C15_NoTwoPointsAtOnePlace ==
  \A i \in 1..Len(traces) :
    IsMarkerSeries(i) =>
      \A p, q \in 1..Len(traces[i].x) :
        (traces[i].x[p] = traces[i].x[q] /\ traces[i].y[p] = traces[i].y[q]) => p = q

(* The place in the input list of the studio with id b *)
InputPos(b) ==
  CHOOSE i \in 1..Len(layoutCall.studio_list) :
    studio_global_idx(layoutCall.studio_list[i]) = b

(* The first place in the input list where the key of merged point n is met *)
FirstEncounter(n) ==
  LET key(e) == MergeKey(e, layoutCall.x_key, layoutCall.size_key)
      at == { i \in 1..Len(layoutCall.studio_list) :
                key(layoutCall.studio_list[i]) = key(layoutCall.merged[n]) }
  IN CHOOSE i \in at : \A j \in at : i <= j

(* C16: the merged points are listed in first-encounter order of their     *)
(* (x, y) keys; within a merged point the provenance list and the joined   *)
(* label follow the members' order in the input list.                      *)
C16_FirstEncounterOrder ==
  Merged =>
    /\ \A n, m \in 1..Len(layoutCall.merged) :
         n < m => FirstEncounter(n) < FirstEncounter(m)
    /\ \A n \in 1..Len(layoutCall.point_map) :
         /\ \A k, l \in 1..Len(layoutCall.point_map[n]) :
              k < l => InputPos(layoutCall.point_map[n][k]) < InputPos(layoutCall.point_map[n][l])
         /\ layoutCall.merged[n].name
              = Flatten([k \in 1..Len(layoutCall.point_map[n]) |->
                           layoutCall.studio_list[InputPos(layoutCall.point_map[n][k])].name])

(* C16 witness: three studios were grouped into two points; the first      *)
(* point merges the first and the last studio of the list, the second      *)
(* point is the studio between them.                                       *)
C16_Witness ==
  /\ Merged
  /\ Len(layoutCall.studio_list) = 3
  /\ Len(layoutCall.point_map) = 2
  /\ layoutCall.point_map[1] = << studio_global_idx(layoutCall.studio_list[1]),
                                  studio_global_idx(layoutCall.studio_list[3]) >>
  /\ layoutCall.point_map[2] = << studio_global_idx(layoutCall.studio_list[2]) >>
  /\ Len(layoutCall.merged[1].name) = 2

(* C17: merge_overlapping is idempotent: applied with the same selectors   *)
(* to the list it returned, it returns the same merged points in the same  *)
(* order, nothing merged further and every point's members unchanged.      *)
C17_GrouperIdempotent ==
  layoutCall.pc = "done" =>
    /\ layoutCall.merged_again = layoutCall.merged
    /\ Len(layoutCall.merged_again) = Len(layoutCall.point_map)
    /\ \A n \in 1..Len(layoutCall.merged_again) :
         PointMembers(layoutCall.merged_again[n]) = layoutCall.point_map[n]

(* C17 witness: a returned list of two points, one of them a merged point  *)
(* of two studios and one a single studio, was merged again.               *)
C17_Witness ==
  /\ layoutCall.pc = "done"
  /\ Len(layoutCall.merged) = 2
  /\ \E n, m \in 1..2 :
       /\ Len(layoutCall.merged[n].parts) = 2
       /\ layoutCall.merged[m].parts = <<>>
  /\ Len(layoutCall.merged_again) = 2

----------------------------------------------------------------------------
(* Coverage of the views *)

(* The studio ids the provenance maps of a view's series list *)
CoveredIds(view_key) ==
  UNION { UNION { Range(trace_point_maps[i][n]) : n \in 1..Len(trace_point_maps[i]) } :
            i \in { j \in Range(visibility_map[view_key]) : j \in DOMAIN trace_point_maps } }

(* C18: for every one of the nine views, the studio ids covered by the     *)
(* provenance maps of the view's series are the whole store: a studio that *)
(* lacks the view's attribute or category value is in a "no data" series   *)
(* and is never dropped from the view.                                     *)
C18_EveryViewCoversStore ==
  \A v \in 1..Len(VIEW_KEYS) : CoveredIds(VIEW_KEYS[v]) = 1..Len(studios)

----------------------------------------------------------------------------
(* Trajectory lines under the filter *)

(* What C19 requires of the page applyFilters leaves: in every line series *)
(* the segment of the si-th studio of the series (x and y slots 3si and    *)
(* 3si+1, counted from 0) is null when the studio fails, and holds the     *)
(* coordinates of the built series when it matches                         *)
C19_Post(data, matches) ==
  \A ti \in DOMAIN growth_line_studio_indices :
    \A si \in 1..Len(growth_line_studio_indices[ti]) :
      \A c \in {3 * (si - 1) + 1, 3 * (si - 1) + 2} :
        IF matches[growth_line_studio_indices[ti][si]]
        THEN data[ti].x[c] = traces[ti].x[c] /\ data[ti].y[c] = traces[ti].y[c]
             /\ data[ti].x[c] # None /\ data[ti].y[c] # None
        ELSE data[ti].x[c] = None /\ data[ti].y[c] = None

(* C19: after applyFilters, in every trajectory-line series the two        *)
(* coordinates of a studio's segment are null iff the studio fails the     *)
(* predicate; the segments of the other studios hold their original        *)
(* coordinates, and a segment nulled earlier is restored once its studio   *)
(* matches again.                                                          *)
C19_LineSegmentsFollowFilter ==
  [][ApplyStep =>
       \A matches \in {MatchResults(filterFields, plotData)} : C19_Post(plotData', matches)]_vars

----------------------------------------------------------------------------
(* Label anchors *)

(* resolve_label_positions has returned *)
Labelled == layoutCall.pc \in {"labelled", "done", "relabelled"}

(* Points i and j of the labelled list are a close pair: dx < 0.10 and dy < 150 *)
ClosePair(i, j) ==
  LET positions == [n \in 1..Len(layoutCall.merged) |->
                      LabelPoint(layoutCall.merged[n], layoutCall.size_key, layoutCall.x_key)]
      g == PairGap(positions, i, j, layoutCall.x_key)
  IN i # j /\ g.dx < 10 /\ g.dy < 150

(* C20: resolve_label_positions returns one anchor per input point, in     *)
(* input order, every anchor one of the eight fixed directions; a point    *)
(* that is in no close pair keeps the default anchor, east of the point.   *)
C20_OneAnchorPerPoint ==
  Labelled =>
    /\ Len(layoutCall.text_positions) = Len(layoutCall.merged)
    /\ \A n \in 1..Len(layoutCall.text_positions) :
         layoutCall.text_positions[n] \in {DEFAULT_POSITION} \cup Range(ALTERNATIVES)
    /\ Cardinality({DEFAULT_POSITION} \cup Range(ALTERNATIVES)) = 8
    /\ \A n \in 1..Len(layoutCall.merged) :
         (\A i \in 1..Len(layoutCall.merged) : ~ClosePair(i, n))
           => layoutCall.text_positions[n] = "middle right"

(* C20 witness: three points were labelled; two of them are a close pair   *)
(* and the later one was moved off the default anchor, while a point after *)
(* them that is in no close pair kept it.                                  *)
C20_Witness ==
  /\ Labelled
  /\ Len(layoutCall.merged) = 3
  /\ \E i, j, n \in 1..3 :
       /\ i < j /\ j < n
       /\ ClosePair(i, j)
       /\ layoutCall.text_positions[j] # DEFAULT_POSITION
       /\ \A m \in 1..3 : ~ClosePair(m, n)
       /\ layoutCall.text_positions[n] = DEFAULT_POSITION

(* The alternatives of point j can be exhausted only when j was the later  *)
(* point of enough close pairs: every close pair takes at most one of the  *)
(* alternatives of j, and one more may be barred as the anchor of i        *)
AlternativesExhausted(j) ==
  Cardinality({ i \in 1..(j - 1) : ClosePair(i, j) }) >= Len(ALTERNATIVES) - 1

(* C21: in the assignment resolve_label_positions returns, two points that *)
(* conflict (dx < 0.10 and dy < 150) share an anchor only if all the       *)
(* alternative anchors of the later point have been exhausted.             *)
C21_ConflictingShareOnlyWhenExhausted ==
  Labelled =>
    \A i, j \in 1..Len(layoutCall.merged) :
      (i < j /\ ClosePair(i, j)
         /\ layoutCall.text_positions[i] = layoutCall.text_positions[j])
        => AlternativesExhausted(j)

(* The distance dx + dy * 0.5 of a pair of labelled points, times 200 *)
PairDistance(i, j) ==
  LET positions == [n \in 1..Len(layoutCall.merged) |->
                      LabelPoint(layoutCall.merged[n], layoutCall.size_key, layoutCall.x_key)]
      g == PairGap(positions, i, j, layoutCall.x_key)
  IN 2 * g.dx + 100 * g.dy

(* C22: the label resolver is deterministic: a second run of               *)
(* resolve_label_positions on the same ordered input returns the same      *)
(* anchors as the first, also when several pairs have equal distance.      *)
C22_ResolverDeterministic ==
  layoutCall.pc = "relabelled" => layoutCall.text_positions_again = layoutCall.text_positions

(* C22 witness: the resolver ran twice on three points; two close pairs    *)
(* that end in the same point have equal distance, and that point was      *)
(* moved off the default anchor.                                           *)
C22_Witness ==
  /\ layoutCall.pc = "relabelled"
  /\ Len(layoutCall.merged) = 3
  /\ ClosePair(1, 3) /\ ClosePair(2, 3)
  /\ PairDistance(1, 3) = PairDistance(2, 3)
  /\ layoutCall.text_positions[3] # DEFAULT_POSITION
  /\ Len(layoutCall.text_positions_again) = 3

----------------------------------------------------------------------------
(* The proximity-hover handler on its own.  The page is loaded and the     *)
(* load timer has installed the plotly_hover listener.  JavaScript runs    *)
(* one handler at a time: a user hover event is delivered only when no     *)
(* handler is running, while Plotly.Fx.hover may emit plotly_hover         *)
(* synchronously, from inside the running handler.  hover.stack holds the  *)
(* position of every running invocation, the innermost last:               *)
(*   "entry"         the listener was called                               *)
(*   "highlight"     nearbyPoints.length > 1, isProximityHover = true done *)
(*   "in_highlight"  inside Plotly.Fx.hover                                *)
(*   "emitted"       inside Plotly.Fx.hover, which has emitted the event   *)
(*   "after"         Plotly.Fx.hover has returned                          *)

MaxHoverEvents == 3
MaxNearby == 3

hoverFrame == <<studios, traces, trace_point_maps, growth_line_studio_indices, visibility_map,
                plotData, _originalData, filterFields, filterCount, listItems, listCount,
                linesVisible, loadTimer, viewTimers, activeView, heldPredicate, layoutCall>>

InitHover ==
  /\ studios \in Datasets
  /\ \E build \in { BuildTraces(secs) : secs \in {Sections} } :
        /\ traces = Tup(build.traces)
        /\ trace_point_maps = build.trace_point_maps
        /\ growth_line_studio_indices = build.growth_line_studio_indices
        /\ visibility_map = build.visibility_map
  /\ plotData = InitialPlotData
  /\ _originalData = initOriginalData(plotData)
  /\ filterFields = MatchAll
  /\ filterCount = totalStudios
  /\ listItems = [idx \in 1..Len(studios) |-> FALSE]
  /\ listCount = totalStudios
  /\ linesVisible = TRUE
  /\ loadTimer = "fired"
  /\ viewTimers = 0
  /\ activeView = "founded"
  /\ heldPredicate = MatchAll
  /\ layoutCall = NoCall
  /\ hover = NoHover

(* The innermost running invocation *)
HoverTop == hover.stack[Len(hover.stack)]
HoverSetTop(pc) == [hover.stack EXCEPT ![Len(hover.stack)] = pc]
HoverPop == SubSeq(hover.stack, 1, Len(hover.stack) - 1)

(* A faulty listener without the guard *)
HoverGuardMissing == TRUE

(* if (isProximityHover) return; *)
HoverGuardPasses == ~hover.isProximityHover

(* The pointer moves over a point: Plotly calls the listener *)
HoverEvent ==
  /\ loadTimer = "fired"
  /\ hover.stack = <<>>
  /\ hover.events < MaxHoverEvents
  /\ hover' = [hover EXCEPT !.stack = <<"entry">>, !.events = @ + 1]
  /\ UNCHANGED hoverFrame

(* The listener up to the call of Plotly.Fx.hover: the guard, the          *)
(* neighbours within the threshold, and the flag                           *)
HoverHandlerEnter ==
  /\ hover.stack # <<>>
  /\ HoverTop = "entry"
  /\ IF HoverGuardPasses
     THEN \E nearby \in 0..MaxNearby :
            hover' = [hover EXCEPT
                        !.computed = @ + 1,
                        !.isProximityHover = IF nearby > 1 THEN TRUE ELSE @,
                        !.stack = IF nearby > 1 THEN HoverSetTop("highlight") ELSE HoverPop]
     ELSE hover' = [hover EXCEPT !.stack = HoverPop]
  /\ UNCHANGED hoverFrame

(* Plotly.Fx.hover(plotDiv, nearbyPoints) is called *)
HoverHighlight ==
  /\ hover.stack # <<>>
  /\ HoverTop = "highlight"
  /\ hover' = [hover EXCEPT !.highlights = @ + 1, !.stack = HoverSetTop("in_highlight")]
  /\ UNCHANGED hoverFrame

(* Plotly.Fx.hover emits plotly_hover: the listener is called again *)
HighlightEmitsHover ==
  /\ hover.stack # <<>>
  /\ HoverTop = "in_highlight"
  /\ hover' = [hover EXCEPT !.stack = Append(HoverSetTop("emitted"), "entry")]
  /\ UNCHANGED hoverFrame

(* Plotly.Fx.hover returns *)
HighlightReturns ==
  /\ hover.stack # <<>>
  /\ HoverTop \in {"in_highlight", "emitted"}
  /\ hover' = [hover EXCEPT !.stack = HoverSetTop("after")]
  /\ UNCHANGED hoverFrame

(* isProximityHover = false; and the listener returns *)
HoverHandlerClear ==
  /\ hover.stack # <<>>
  /\ HoverTop = "after"
  /\ hover' = [hover EXCEPT !.isProximityHover = FALSE, !.stack = HoverPop]
  /\ UNCHANGED hoverFrame

NextHover ==
  \/ HoverEvent
  \/ HoverHandlerEnter
  \/ HoverHighlight
  \/ HighlightEmitsHover
  \/ HighlightReturns
  \/ HoverHandlerClear

SpecHover == InitHover /\ [][NextHover]_vars

(* C23: the proximity-hover listener is guarded against re-entry: the flag *)
(* is set from before Plotly.Fx.hover is called until right after it has   *)
(* returned; a hover event raised while the flag is set returns without    *)
(* computing neighbours or issuing another highlight, so that at most one  *)
(* invocation is nested; and the flag is false whenever no invocation is   *)
(* in progress.                                                            *)
C23_HoverGuarded ==
  /\ \A k \in 1..Len(hover.stack) :
       hover.stack[k] \in {"highlight", "in_highlight", "emitted", "after"}
         => hover.isProximityHover
  /\ Len(hover.stack) <= 2
  /\ Len(hover.stack) = 2 => hover.stack[1] = "emitted" /\ hover.stack[2] = "entry"
  /\ hover.computed <= hover.events /\ hover.highlights <= hover.computed
  /\ hover.stack = <<>> => ~hover.isProximityHover

(* C23 witness: Plotly.Fx.hover has emitted a hover event from inside the  *)
(* listener; the nested invocation has returned, the outer one has not yet *)
(* cleared the flag, and one highlight was issued for two hover events of  *)
(* the user.                                                               *)
C23_Witness ==
  /\ hover.stack = <<"emitted">>
  /\ hover.isProximityHover
  /\ hover.events = 2 /\ hover.computed = 2 /\ hover.highlights = 1

----------------------------------------------------------------------------
(* Bounds of the range clauses *)

(* The four number inputs of the filter bar *)
BoundKeys == {"yearMin", "yearMax", "sizeMin", "sizeMax"}

(* Values of a number input that hold no number: empty, or no leading digit *)
InvalidBounds == { <<>>, <<"a">>, <<" ">>, <<"-">> }

(* A bound that no studio of the data can violate: 0 below, 9999 above *)
NoBound(key) == IF key \in {"yearMin", "sizeMin"} THEN <<"0">> ELSE <<"9", "9", "9", "9">>

(* C24: a year or size bound that is empty or not a valid number disables  *)
(* only its own clause: with it, the predicate gives every studio the      *)
(* result it gives when that bound excludes nothing, whatever the other    *)
(* inputs hold.                                                            *)
C24_InvalidBoundDisablesClause ==
  \A key \in BoundKeys : \A bound \in InvalidBounds : \A i \in 1..Len(STUDIOS) :
    studioMatchesFilter(STUDIOS[i], [filterFields EXCEPT ![key] = bound], plotData)
      = studioMatchesFilter(STUDIOS[i], [filterFields EXCEPT ![key] = NoBound(key)], plotData)

(* C24 witness: applyFilters has run with a lower year and size bound and  *)
(* empty upper bounds; the lower bounds reject one studio while the other  *)
(* one, above them, is shown.                                              *)
C24_Witness ==
  /\ heldPredicate = filterFields
  /\ filterFields.yearMin # <<>> /\ filterFields.sizeMin # <<>>
  /\ filterFields.yearMax \in InvalidBounds /\ filterFields.sizeMax \in InvalidBounds
  /\ Len(STUDIOS) = 2
  /\ filterCount = 1

----------------------------------------------------------------------------
(* The sentinel size under the filter *)

(* Size ranges [min, max] around and beside the sentinel 10 *)
SentinelProbes ==
  { [min |-> <<"5">>, max |-> <<"2", "0">>, holds10 |-> TRUE],
    [min |-> <<"2", "0">>, max |-> <<"5", "0">>, holds10 |-> FALSE],
    [min |-> <<"1">>, max |-> <<"5">>, holds10 |-> FALSE] }

(* Studio i has no value of the size attribute that view plots *)
LacksSize(i, view) ==
  LET key == IF view = "founded" THEN "size_founded_num" ELSE "size_current_num"
  IN studios[i][key] \in {None, Absent}

(* C25: a studio that lacks a size value is evaluated by the size-range    *)
(* clause, in every view, with the sentinel 10 under which it is plotted:  *)
(* it matches the bounds [min, max] iff min <= 10 <= max.                  *)
C25_SentinelSizeInFilter ==
  \A i \in 1..Len(STUDIOS) : \A probe \in SentinelProbes :
    LacksSize(i, getCurrentView(plotData)) =>
      (studioMatchesFilter(STUDIOS[i],
                           [MatchAll EXCEPT !.sizeMin = probe.min, !.sizeMax = probe.max],
                           plotData)
         <=> probe.holds10)

----------------------------------------------------------------------------
(* Series the engine has no snapshot of *)

(* What C26 requires of a run of applyFilters: a series without a snapshot *)
(* is left as it is, every series with a snapshot and a provenance map or  *)
(* a studio list is restyled, and the counter is written                   *)
C26_ApplyPost(before, after, matches) ==
  /\ \A ti \in 1..Len(before) :
       IF ~HasOrig(_originalData, ti) THEN after[ti] = before[ti]
       ELSE IF ti \in DOMAIN trace_point_maps
       THEN after[ti] = ApplyMarkerTrace(before[ti], _originalData[ti],
                                         trace_point_maps[ti], matches)
       ELSE ti \in DOMAIN growth_line_studio_indices
              => after[ti] = ApplyLineTrace(before[ti], _originalData[ti],
                                            growth_line_studio_indices[ti], matches)
  /\ filterCount' = CountTrue(matches)

(* The same of a run of resetFilters, which writes the counters last *)
C26_ResetPost(before, after) ==
  /\ \A ti \in 1..Len(before) :
       IF ~HasOrig(_originalData, ti) THEN after[ti] = before[ti]
       ELSE IF ti \in DOMAIN trace_point_maps
       THEN after[ti] = ResetMarkerTrace(before[ti], _originalData[ti])
       ELSE ti \in DOMAIN growth_line_studio_indices
              => after[ti] = ResetLineTrace(before[ti], _originalData[ti])
  /\ filterCount' = totalStudios /\ listCount' = totalStudios

----------------------------------------------------------------------------
(* The match count *)

(* The studios the list panel shows: the items that are not hidden *)
ShownInList(items) == { idx \in DOMAIN items : ~items[idx] }

(* C27: the count reads N/M, M the number of studios: after applyFilters N *)
(* is the number of true entries of the match array, after resetFilters N  *)
(* is M, and the list panel shows exactly the same N studios.              *)
C27_MatchCountAgrees ==
  [][ /\ ApplyStep =>
           \A matches \in {MatchResults(filterFields, plotData)} :
             /\ filterCount' = CountTrue(matches)
             /\ ShownInList(listItems') = { i \in 1..Len(studios) : matches[i] }
             /\ listCount' = filterCount'
      /\ ResetStep =>
           /\ filterCount' = totalStudios
           /\ ShownInList(listItems') = 1..Len(studios)
           /\ listCount' = totalStudios ]_vars

----------------------------------------------------------------------------
(* The trajectory-line toggle *)

(* The trajectory-line series that are visible *)
VisibleLines(data) == { i \in growthLineIndices : data[i].visible }

(* C28: after any sequence of toggleLines calls and view switches a        *)
(* trajectory-line series is visible only while the growth view is the     *)
(* active view; toggling the lines in another view never shows them there. *)
C28_LinesOnlyInGrowthView ==
  VisibleLines(plotData) # {} => activeView = "growth"

(* C29: after any sequence of toggleLines calls and view switches,         *)
(* whenever the growth view is active the linesVisible flag (and the       *)
(* ON/OFF text of the button) equals the visibility of the trajectory-line *)
(* series: lines toggled off stay hidden when the user leaves the growth   *)
(* view and returns to it.                                                 *)
C29_LinesFlagMatchesVisibility ==
  activeView = "growth" =>
    \A i \in growthLineIndices : plotData[i].visible = linesVisible

----------------------------------------------------------------------------
(* Count and visuals *)

(* The visuals of the visible marker series agree with counting the        *)
(* studios of the set counted: a point is live iff one of its members is   *)
(* in the set                                                              *)
VisualsShow(counted) ==
  \A ti \in 1..Len(plotData) :
    (IsMarkerSeries(ti) /\ plotData[ti].visible) =>
      \A pi \in 1..NumPoints(plotData[ti]) :
        (OpacityAt(plotData[ti], pi) # JNum(0))
          <=> (\E k \in 1..Len(traces[ti].members[pi]) : traces[ti].members[pi][k] \in counted)

(* C30: in every state reachable after page load, whatever the timing of   *)
(* applyFilters, resetFilters and view switches relative to the snapshot   *)
(* capture and to the delayed re-application, the displayed match count    *)
(* and the series visuals agree: the N studios counted as matching are a   *)
(* set such that a point of a visible marker series is live iff one of its *)
(* members is among them.                                                  *)
C30_CountAndVisualsAgree ==
  \E counted \in SUBSET (1..Len(studios)) :
    Cardinality(counted) = filterCount /\ VisualsShow(counted)

====
